---- MODULE Spec2Model ----
(***************************************************************************)
(* Model of the image-processor rename tool: FileOperations                *)
(* (safe_file_move, get_unique_filename), ImageRenamer (sanitize_filename, *)
(* rename_single_image).                                                   *)
(*                                                                         *)
(* Filesystem calls (shutil.copy2, Path.unlink) are modelled as the code   *)
(* sees them: each call either takes effect or raises OSError and leaves   *)
(* the filesystem as it was.  Which of the two happens is chosen by the    *)
(* environment at every call.                                              *)
(***************************************************************************)
EXTENDS Naturals, Integers, Sequences, FiniteSets, TLC

VARIABLES
    fs,                 \* the filesystem: path -> content of the file there
    max_retries,        \* FileOperations.max_retries
    backup_originals,   \* FileOperations.backup_originals
    confirm_overwrites, \* FileOperations.confirm_overwrites
    pc,                 \* position inside safe_file_move
    src,                \* safe_file_move argument
    dst,                \* safe_file_move argument
    backup_path,        \* local of safe_file_move (NoPath is None)
    attempt,            \* loop variable of safe_file_move
    outcome,            \* "running", "True" or the exception raised
    log,                \* history: the filesystem calls made and how each ended
    fs0,                \* history: the filesystem when safe_file_move was called
    pattern_cleanup,    \* ImageRenamer.pattern_cleanup
    max_length,         \* ImageRenamer.max_length
    remove_punctuation, \* ImageRenamer.remove_punctuation
    replace_spaces_with,\* ImageRenamer.replace_spaces_with
    case_conversion,    \* ImageRenamer.case_conversion
    description,        \* sanitize_filename argument
    original_extension, \* sanitize_filename argument
    sanitized,          \* what sanitize_filename returned (NotCalled before)
    resanitized,        \* what sanitize_filename returned for that stem
    base_path,          \* get_unique_filename argument
    suffix_arg,         \* get_unique_filename argument "suffix"
    resolved,           \* history: what each get_unique_filename call returned,
                        \* and the paths that existed then
    r_pc,               \* position inside rename_single_image
    image_path,         \* rename_single_image argument
    dry_run,            \* rename_single_image argument
    new_filename,       \* local of rename_single_image
    results,            \* history: the rename_single_image calls made
    dir0,               \* history: the directory before the first call
    fault_limit,        \* environment: how many filesystem calls may fail
                        \* in one run (NoLimit: any number)
    retry_attempts,     \* OllamaClient.retry_attempts
    c_pc,               \* position inside OllamaClient.generate_filename
    c_attempt,          \* local "attempt" of generate_filename
    reply,              \* what the last requests.post returned or raised
    requests,           \* history: the replies to the HTTP requests sent
    c_outcome,          \* what generate_filename returned or raised
    v_path,             \* verify_image argument
    v_file,             \* what is at that path: kind, size, decodability
    max_file_size,      \* FileOperations.max_file_size
    v_outcome,          \* what verify_image returned or raised
    d_pc,               \* position inside rename_directory
    image_files,        \* local of rename_directory: the listing
    d_index,            \* rename_directory: position of the loop in the listing
    processed_count,    \* local of rename_directory
    failed_count,       \* local of rename_directory
    stats,              \* what rename_directory returned
    db,                 \* metadata tool: the images table, path -> description
    xmp,                \* metadata tool: the description written into each file
    m_retry_attempts,   \* ImageProcessor.retry_attempts
    m_pc,               \* position inside process_single_image
    m_path,             \* process_single_image argument
    m_description,      \* local "description" of process_single_image
    w_attempt,          \* local "attempt" of write_metadata_to_image
    m_log,              \* history: the calls process_single_image has made
    m_result,           \* what process_single_image returned
    m_results,          \* history: the process_single_image calls made
    pd_pc,              \* position inside process_directory
    sanitize_names,     \* process_directory argument
    norm_files,         \* sanitize_filenames_in_directory: the files listed
    norm_index,         \* sanitize_filenames_in_directory: position in them
    renamed_count,      \* local of sanitize_filenames_in_directory
    pd_files,           \* process_directory local "image_files"
    pd_index,           \* process_directory: position of the loop
    pd_processed,       \* process_directory local "processed_count"
    pd_failed,          \* process_directory local "failed_count"
    pd_stats,           \* what process_directory returned
    events,             \* watch script: the creation events not yet handled
    external_left,      \* watch script: images other programs may still create
    w_pc,               \* watch script: position of the event handler
    w_src,              \* watch script: safe_file_move argument src
    w_dst,              \* watch script: safe_file_move argument dst
    watch_attempt,      \* watch script: local "attempt" of safe_file_move
    watch_faults        \* watch script: the filesystem calls that have failed

moveVars == <<fs, max_retries, backup_originals, confirm_overwrites, pc, src,
              dst, backup_path, attempt, outcome, log, fs0>>

policyVars == <<pattern_cleanup, max_length, remove_punctuation,
                replace_spaces_with, case_conversion>>

sanVars == <<description, original_extension, sanitized, resanitized>>

uniqVars == <<base_path, suffix_arg, resolved>>

renameVars == <<r_pc, image_path, dry_run, new_filename, results,
                dir0, fault_limit>>

clientVars == <<retry_attempts, c_pc, c_attempt, reply, requests, c_outcome>>

verifyVars == <<v_path, v_file, max_file_size, v_outcome>>

dirVars == <<d_pc, image_files, d_index, processed_count, failed_count, stats>>

singleVars == <<db, xmp, m_retry_attempts, m_pc, m_path, m_description,
                w_attempt, m_log, m_result, m_results>>

processVars == <<pd_pc, sanitize_names, norm_files, norm_index, renamed_count,
                 pd_files, pd_index, pd_processed, pd_failed, pd_stats>>

metaVars == <<singleVars, processVars>>

watchVars ==
    <<events, external_left, w_pc, w_src, w_dst, watch_attempt, watch_faults>>

\* what no step of the rename tool's file handling touches
restVars == <<clientVars, verifyVars, metaVars, watchVars>>

\* what no step of generate_filename touches
otherThanClient ==
    <<moveVars, policyVars, sanVars, uniqVars, renameVars, verifyVars, dirVars,
      metaVars, watchVars>>

\* what no step of verify_image touches
otherThanVerify ==
    <<moveVars, policyVars, sanVars, uniqVars, renameVars, clientVars, dirVars,
      metaVars, watchVars>>

\* what no step of the metadata tool touches, the files apart
otherThanMeta ==
    <<max_retries, backup_originals, confirm_overwrites, pc, src, dst,
      backup_path, attempt, outcome, log, fs0, policyVars, sanVars, uniqVars,
      renameVars, clientVars, verifyVars, dirVars, watchVars>>

\* what no step of the watch script touches, the files apart
otherThanWatch ==
    <<max_retries, backup_originals, confirm_overwrites, pc, src, dst,
      backup_path, attempt, outcome, log, fs0, policyVars, sanVars, uniqVars,
      renameVars, clientVars, verifyVars, dirVars, metaVars>>

\* what no step of safe_file_move touches
otherThanMove == <<policyVars, sanVars, uniqVars, renameVars, restVars, dirVars>>

vars == <<moveVars, policyVars, sanVars, uniqVars, renameVars, restVars, dirVars>>

-----------------------------------------------------------------------------
(* Bounds of the model. *)

\* largest configured file_operations.safe_move_retries explored
MaxRetriesBound == 3

\* longest description given to sanitize_filename
MaxDescLen == 3

\* largest small filename.max_length explored (beside the default)
MaxLengthBound == 3

-----------------------------------------------------------------------------
(* Paths.  A path is its parent directory, its stem (a sequence of         *)
(* characters) and its suffix, as pathlib splits a name whose stem holds   *)
(* no dot.                                                                 *)

Path(parent, stem, suffix) == [parent |-> parent, stem |-> stem, suffix |-> suffix]

NoPath == [parent |-> "", stem |-> <<>>, suffix |-> ""]

Exists(f, p) == p \in DOMAIN f

\* Path.unlink() when it succeeds
Unlink(f, p) == [q \in DOMAIN f \ {p} |-> f[q]]

\* shutil.copy2(a, b) when it succeeds: b holds a's content, overwriting
Copy2(f, a, b) == [q \in DOMAIN f \cup {b} |-> IF q = b THEN f[a] ELSE f[q]]

\* src.with_suffix(f"{src.suffix}.backup"): "a.jpg" -> "a.jpg.backup"
BackupPathOf(p) == Path(p.parent, p.stem \o <<p.suffix>>, ".backup")

-----------------------------------------------------------------------------
(* FileOperations.safe_file_move, one action per filesystem call.          *)

Logged(e) == log' = Append(log, e)

\* fault_limit when the environment may fail any number of calls
NoLimit == <<>>

IsFailedCall(e) ==
    e \in {"backup failed", "copy failed", "unlink src failed",
           "unlink backup failed", "unlink dst failed", "restore failed"}

\* the filesystem calls that failed in this run: those of the running
\* safe_file_move and those of the calls before it
FaultsSoFar ==
    Len(SelectSeq(log, IsFailedCall))
      + (IF results = <<>> THEN 0 ELSE results[Len(results)].faults)

\* the environment may let the next filesystem call fail
MayFail ==
    IF fault_limit = NoLimit THEN TRUE ELSE FaultsSoFar < fault_limit[1]

OverwriteRefusedNever == FALSE

\* line 133: dst.exists() and self.confirm_overwrites
OverwriteRefused == Exists(fs, dst) /\ confirm_overwrites

LastAttemptOneEarly == attempt >= max_retries - 2

\* lines 175 and 181: attempt == self.max_retries - 1
LastAttempt == attempt = max_retries - 1

\* lines 133-137
PreCheck ==
    /\ pc = "precheck"
    /\ IF OverwriteRefused
         THEN /\ pc' = "done"
              /\ outcome' = "FileOperationError: Destination file already exists"
         ELSE /\ pc' = "backup"
              /\ UNCHANGED outcome
    /\ UNCHANGED <<fs, max_retries, backup_originals, confirm_overwrites, src,
                   dst, backup_path, attempt, log, fs0>>
    /\ UNCHANGED otherThanMove

\* lines 140-147
MakeBackup ==
    /\ pc = "backup"
    /\ IF backup_originals /\ Exists(fs, src)
         THEN /\ backup_path' = BackupPathOf(src)
              /\ \E ok \in BOOLEAN :
                    /\ ok \/ MayFail
                    /\ IF ok
                      THEN /\ fs' = Copy2(fs, src, BackupPathOf(src))
                           /\ Logged("backup ok")
                      ELSE /\ UNCHANGED fs
                           /\ Logged("backup failed")
         ELSE UNCHANGED <<fs, backup_path, log>>
    /\ pc' = "copy"
    /\ UNCHANGED <<max_retries, backup_originals, confirm_overwrites, src, dst,
                   attempt, outcome, fs0>>
    /\ UNCHANGED otherThanMove

\* line 149: for attempt in range(self.max_retries)
InLoop == attempt < max_retries

\* line 152: shutil.copy2(src, dst); it cannot succeed without src
CopyStep ==
    /\ pc = "copy"
    /\ InLoop
    /\ \E ok \in BOOLEAN :
          /\ ok \/ MayFail
          /\ IF ok /\ Exists(fs, src)
            THEN /\ fs' = Copy2(fs, src, dst)
                 /\ Logged("copy ok")
                 /\ pc' = "unlink_src"
            ELSE /\ UNCHANGED fs
                 /\ Logged("copy failed")
                 /\ pc' = "outer_except"
    /\ UNCHANGED <<max_retries, backup_originals, confirm_overwrites, src, dst,
                   backup_path, attempt, outcome, fs0>>
    /\ UNCHANGED otherThanMove

\* line 199: the loop ran out without returning or raising
LoopExit ==
    /\ pc = "copy"
    /\ ~InLoop
    /\ pc' = "done"
    /\ outcome' = "False"
    /\ UNCHANGED <<fs, max_retries, backup_originals, confirm_overwrites, src,
                   dst, backup_path, attempt, log, fs0>>
    /\ UNCHANGED otherThanMove

\* line 159: src.unlink()
UnlinkSrc ==
    /\ pc = "unlink_src"
    /\ \E ok \in BOOLEAN :
          /\ ok \/ MayFail
          /\ IF ok
            THEN /\ fs' = Unlink(fs, src)
                 /\ Logged("unlink src ok")
                 /\ pc' = "remove_backup"
            ELSE /\ UNCHANGED fs
                 /\ Logged("unlink src failed")
                 /\ pc' = "inner_except"
    /\ UNCHANGED <<max_retries, backup_originals, confirm_overwrites, src, dst,
                   backup_path, attempt, outcome, fs0>>
    /\ UNCHANGED otherThanMove

\* lines 163-167: still inside the inner try, so a failing backup_path.unlink()
\* is handled as a failure to remove the original
RemoveBackup ==
    /\ pc = "remove_backup"
    /\ IF backup_path # NoPath /\ Exists(fs, backup_path)
         THEN \E ok \in BOOLEAN :
                 /\ ok \/ MayFail
                 /\ IF ok
                   THEN /\ fs' = Unlink(fs, backup_path)
                        /\ Logged("unlink backup ok")
                        /\ pc' = "done"
                        /\ outcome' = "True"
                   ELSE /\ UNCHANGED <<fs, outcome>>
                        /\ Logged("unlink backup failed")
                        /\ pc' = "inner_except"
         ELSE /\ pc' = "done"
              /\ outcome' = "True"
              /\ UNCHANGED <<fs, log>>
    /\ UNCHANGED <<max_retries, backup_originals, confirm_overwrites, src, dst,
                   backup_path, attempt, fs0>>
    /\ UNCHANGED otherThanMove

\* what follows the inner handler's cleanup, lines 175-178: raise on the last
\* attempt, otherwise the next iteration of the loop
AfterCleanup ==
    IF LastAttempt
      THEN /\ pc' = "done"
           /\ outcome' = "FilePermissionError"
           /\ UNCHANGED attempt
      ELSE /\ pc' = "copy"
           /\ attempt' = attempt + 1
           /\ UNCHANGED outcome

CopyToRemoveNever == FALSE

\* line 172: dst.exists()
CopyToRemove == Exists(fs, dst)

\* lines 169-178: the inner handler removes the copy; an OSError of
\* dst.unlink() leaves the handler for the outer one
InnerExcept ==
    /\ pc = "inner_except"
    /\ IF CopyToRemove
         THEN \E ok \in BOOLEAN :
                 /\ ok \/ MayFail
                 /\ IF ok
                   THEN /\ fs' = Unlink(fs, dst)
                        /\ Logged("unlink dst ok")
                        /\ AfterCleanup
                   ELSE /\ UNCHANGED <<fs, attempt, outcome>>
                        /\ Logged("unlink dst failed")
                        /\ pc' = "outer_except"
         ELSE /\ UNCHANGED <<fs, log>>
              /\ AfterCleanup
    /\ UNCHANGED <<max_retries, backup_originals, confirm_overwrites, src, dst,
                   backup_path, fs0>>
    /\ UNCHANGED otherThanMove

\* lines 180-197: on the last attempt restore the backup (if any) and raise
OuterExcept ==
    /\ pc = "outer_except"
    /\ IF LastAttempt
         THEN IF backup_path # NoPath /\ Exists(fs, backup_path)
                THEN /\ pc' = "restore"
                     /\ UNCHANGED <<attempt, outcome>>
                ELSE /\ pc' = "done"
                     /\ outcome' = "FileOperationError: File move failed"
                     /\ UNCHANGED attempt
         ELSE /\ pc' = "copy"
              /\ attempt' = attempt + 1
              /\ UNCHANGED outcome
    /\ UNCHANGED <<fs, max_retries, backup_originals, confirm_overwrites, src,
                   dst, backup_path, log, fs0>>
    /\ UNCHANGED otherThanMove

\* line 185: shutil.copy2(backup_path, src); its OSError is logged, line 188
RestoreCopy ==
    /\ pc = "restore"
    /\ \E ok \in BOOLEAN :
          /\ ok \/ MayFail
          /\ IF ok
            THEN /\ fs' = Copy2(fs, backup_path, src)
                 /\ Logged("restore ok")
                 /\ pc' = "restore_unlink"
                 /\ UNCHANGED outcome
            ELSE /\ UNCHANGED fs
                 /\ Logged("restore failed")
                 /\ pc' = "done"
                 /\ outcome' = "FileOperationError: File move failed"
    /\ UNCHANGED <<max_retries, backup_originals, confirm_overwrites, src, dst,
                   backup_path, attempt, fs0>>
    /\ UNCHANGED otherThanMove

\* line 186: backup_path.unlink(); its OSError is logged, line 188
RestoreUnlink ==
    /\ pc = "restore_unlink"
    /\ \E ok \in BOOLEAN :
          /\ ok \/ MayFail
          /\ IF ok
            THEN /\ fs' = Unlink(fs, backup_path)
                 /\ Logged("unlink backup ok")
            ELSE /\ UNCHANGED fs
                 /\ Logged("unlink backup failed")
    /\ pc' = "done"
    /\ outcome' = "FileOperationError: File move failed"
    /\ UNCHANGED <<max_retries, backup_originals, confirm_overwrites, src, dst,
                   backup_path, attempt, fs0>>
    /\ UNCHANGED otherThanMove

safe_file_move ==
    \/ PreCheck
    \/ MakeBackup
    \/ CopyStep
    \/ LoopExit
    \/ UnlinkSrc
    \/ RemoveBackup
    \/ InnerExcept
    \/ OuterExcept
    \/ RestoreCopy
    \/ RestoreUnlink

-----------------------------------------------------------------------------
(* Characters and strings.  A string is a sequence of one-character        *)
(* strings; the characters below are the ones the model's descriptions     *)
(* are written in, and what the case conversions make of them.             *)

\* the letters of the model, in both cases
Lower == <<"a", "b", "d", "e", "m", "n", "u">>

Upper == <<"A", "B", "D", "E", "M", "N", "U">>

LowerLetters == { Lower[i] : i \in DOMAIN Lower }

UpperLetters == { Upper[i] : i \in DOMAIN Upper }

DigitChars == {"0", "1", "2", "3", "4", "5", "6", "7", "8", "9"}

\* what str.strip() strips and the pattern \s matches
Whitespace == {" ", "\t"}

\* the argument of rstrip, line 66
TrailingPunctuation == {".", ",", "!", "?", ";", ":"}

\* the class [a-zA-Z0-9] of line 79
IsAlnum(c) == c \in LowerLetters \cup UpperLetters \cup DigitChars

ToLower(c) ==
    IF c \in UpperLetters
      THEN Lower[CHOOSE i \in DOMAIN Upper : Upper[i] = c]
      ELSE c

ToUpper(c) ==
    IF c \in LowerLetters
      THEN Upper[CHOOSE i \in DOMAIN Lower : Lower[i] = c]
      ELSE c

\* str.lstrip / str.rstrip / str.strip with the characters to strip
RECURSIVE LStrip(_, _)
LStrip(s, chars) ==
    IF s # <<>> /\ Head(s) \in chars THEN LStrip(Tail(s), chars) ELSE s

RECURSIVE RStrip(_, _)
RStrip(s, chars) ==
    IF s # <<>> /\ s[Len(s)] \in chars
      THEN RStrip(SubSeq(s, 1, Len(s) - 1), chars)
      ELSE s

Strip(s, chars) == LStrip(RStrip(s, chars), chars)

StrLower(s) == [i \in DOMAIN s |-> ToLower(s[i])]

StrUpper(s) == [i \in DOMAIN s |-> ToUpper(s[i])]

\* str.title(): a letter is upper-cased unless the character before it is a
\* letter, and lower-cased if it is
StrTitle(s) ==
    [i \in DOMAIN s |->
        IF i > 1 /\ s[i - 1] \in LowerLetters \cup UpperLetters
          THEN ToLower(s[i])
          ELSE ToUpper(s[i])]

\* re.sub(r"[^a-zA-Z0-9\s]", "", s)
KeepAlnumAndWhitespace(c) == IsAlnum(c) \/ c \in Whitespace

RemoveOthers(s) == SelectSeq(s, KeepAlnumAndWhitespace)

\* s.replace(" ", sep): only the space character is replaced
ReplaceSpaces(s, sep) == [i \in DOMAIN s |-> IF s[i] = " " THEN sep ELSE s[i]]

\* re.sub(re.escape(sep) + "+", sep, s)
RECURSIVE CollapseRuns(_, _)
CollapseRuns(s, sep) ==
    IF Len(s) < 2 THEN s
    ELSE IF s[1] = sep /\ s[2] = sep
           THEN CollapseRuns(Tail(s), sep)
           ELSE <<s[1]>> \o CollapseRuns(Tail(s), sep)

\* s.split(sep) for a one-character sep
RECURSIVE Split(_, _)
Split(s, sep) ==
    IF \E i \in DOMAIN s : s[i] = sep
      THEN LET i == CHOOSE j \in DOMAIN s :
                       s[j] = sep /\ \A k \in 1..(j - 1) : s[k] # sep
           IN  <<SubSeq(s, 1, i - 1)>> \o Split(SubSeq(s, i + 1, Len(s)), sep)
      ELSE <<s>>

-----------------------------------------------------------------------------
(* ImageRenamer.sanitize_filename                                          *)

\* lines 69-75
ApplyCase(s, mode) ==
    CASE mode = "lower" -> StrLower(s)
      [] mode = "upper" -> StrUpper(s)
      [] mode = "title" -> StrTitle(s)
      [] OTHER -> s

\* lines 77-87
PatternCleanup(s, sep) ==
    Strip(CollapseRuns(ReplaceSpaces(RemoveOthers(s), sep), sep), {sep})

\* lines 93-100: the words that fit, joined again
RECURSIVE JoinWhileFits(_, _, _, _, _)
JoinWhileFits(words, i, result, sep, limit) ==
    IF i > Len(words) THEN result
    ELSE LET test_result ==
                 result \o (IF result # <<>> THEN <<sep>> ELSE <<>>) \o words[i]
         IN  IF Len(test_result) > limit
               THEN result
               ELSE JoinWhileFits(words, i + 1, test_result, sep, limit)

\* lines 90-101
LimitLength(s, sep, limit) ==
    IF Len(s) > limit
      THEN LET result == JoinWhileFits(Split(s, sep), 1, <<>>, sep, limit)
           IN  IF result # <<>> THEN result ELSE SubSeq(s, 1, limit)
      ELSE s

\* line 105
Unnamed == <<"u", "n", "n", "a", "m", "e", "d">>

\* lines 104-105
OrUnnamed(s) == IF s = <<>> THEN Unnamed ELSE s

\* lines 62-87: the stem before its length is limited
CleanedStem(desc, cleanup, punct, sep, mode) ==
    LET stripped == Strip(desc, Whitespace)
        unpunct  == IF punct THEN RStrip(stripped, TrailingPunctuation)
                             ELSE stripped
        cased    == ApplyCase(unpunct, mode)
    IN  IF cleanup THEN PatternCleanup(cased, sep) ELSE cased

\* lines 62-105: the stem of the returned filename
SanitizedStem(desc, cleanup, limit, punct, sep, mode) ==
    OrUnnamed(LimitLength(CleanedStem(desc, cleanup, punct, sep, mode),
                          sep, limit))

\* line 108: f"{filename}{original_extension}", the extension kept as the
\* last element
sanitize_filename(desc, ext, cleanup, limit, punct, sep, mode) ==
    SanitizedStem(desc, cleanup, limit, punct, sep, mode) \o <<ext>>

\* the two parts of a returned filename
StemOf(name) == SubSeq(name, 1, Len(name) - 1)

ExtensionOf(name) == name[Len(name)]

NotCalled == <<>>

\* one call of sanitize_filename under the configured policy
SanitizeCall ==
    /\ sanitized = NotCalled
    /\ resanitized = NotCalled
    /\ sanitized' = sanitize_filename(description, original_extension,
                                     pattern_cleanup, max_length,
                                     remove_punctuation, replace_spaces_with,
                                     case_conversion)
    /\ UNCHANGED <<moveVars, policyVars, description, original_extension,
                   resanitized, uniqVars, renameVars, restVars, dirVars>>

\* a second call of sanitize_filename, on the stem the first call returned
SanitizeAgain ==
    /\ sanitized # NotCalled
    /\ resanitized = NotCalled
    /\ resanitized' = sanitize_filename(StemOf(sanitized), original_extension,
                                       pattern_cleanup, max_length,
                                       remove_punctuation, replace_spaces_with,
                                       case_conversion)
    /\ UNCHANGED <<moveVars, policyVars, description, original_extension,
                   sanitized, uniqVars, renameVars, restVars, dirVars>>

-----------------------------------------------------------------------------
(* FileOperations.get_unique_filename                                      *)

\* str(counter)
RECURSIVE Decimal(_)
Decimal(n) ==
    LET digit(d) == <<"0", "1", "2", "3", "4", "5", "6", "7", "8", "9">>[d + 1]
    IN  IF n < 10 THEN <<digit(n)>>
                  ELSE Decimal(n \div 10) \o <<digit(n % 10)>>

\* lines 257-262: base_path.with_name(f"{stem}{suffix}_{counter}{ext}")
Numbered(base, sfx, counter) ==
    Path(base.parent, base.stem \o sfx \o <<"_">> \o Decimal(counter), base.suffix)

FirstFreeUnchecked(f, base, sfx, counter) == Numbered(base, sfx, counter)

\* lines 255-267: the first numbered path that does not exist
RECURSIVE FirstFree(_, _, _, _)
FirstFree(f, base, sfx, counter) ==
    IF ~Exists(f, Numbered(base, sfx, counter))
      THEN Numbered(base, sfx, counter)
      ELSE FirstFree(f, base, sfx, counter + 1)

\* lines 246-267
get_unique_filename(f, base, sfx) ==
    LET new_path == IF sfx # <<>>
                      THEN Path(base.parent, base.stem \o sfx, base.suffix)
                      ELSE base
    IN  IF ~Exists(f, new_path) THEN new_path ELSE FirstFree(f, base, sfx, 1)

\* one call get_unique_filename(base_path, suffix)
UniqueCall ==
    /\ resolved' = Append(resolved,
                          [result   |-> get_unique_filename(fs, base_path, suffix_arg),
                           existing |-> DOMAIN fs])
    /\ UNCHANGED <<moveVars, policyVars, sanVars, base_path, suffix_arg,
                   renameVars, restVars, dirVars>>

-----------------------------------------------------------------------------
(* ImageRenamer.rename_single_image.  Everything up to the call of         *)
(* safe_file_move reads the filesystem only and is one step; the move then *)
(* runs step by step, and the call returns with its result.                *)

\* FileOperations.supported_extensions, line 46
SupportedExtensions == {".png", ".jpg", ".jpeg", ".gif", ".bmp"}

\* is_supported_image, line 67 (the suffixes of the model are lower-case)
IsSupportedImage(p) == p.suffix \in SupportedExtensions

\* generate_filename returned None, lines 137-139
None == <<>>

\* renamer.py line 166: image_path.parent / new_filename
NewPath(p, name) ==
    Path(p.parent, StemOf(name), ExtensionOf(name))

NameTakenNever(f, p) == FALSE

\* renamer.py line 174: new_path.exists()
NameTaken(f, p) == Exists(f, p)

\* renamer.py lines 166-175: the path the file is to get
TargetPath(f, p, name) ==
    IF NameTaken(f, NewPath(p, name))
      THEN get_unique_filename(f, NewPath(p, name), <<>>)
      ELSE NewPath(p, name)

SameNameNever(p, name) == FALSE

\* renamer.py line 169: new_path == image_path
SameName(p, name) == NewPath(p, name) = p

IsDryRunNever(dry) == FALSE

\* renamer.py line 178: if dry_run
IsDryRun(dry) == dry

CaughtOnlyReturns(result) == result \in {"True", "False"}

\* renamer.py line 192: except Exception catches whatever safe_file_move
\* raises (file_operations.py lines 19-27: subclasses of Exception)
Caught(result) == TRUE

\* history: the call made, what it returned, and the filesystem calls
\* that have failed in the run by then
Returned(p, dry, name, target, result) ==
    results' = Append(results, [image |-> p, dry_run |-> dry,
                                new_filename |-> name, new_path |-> target,
                                result |-> result, faults |-> FaultsSoFar])

\* renamer.py line 132, under the configured policy
GeneratedName(p, desc) ==
    sanitize_filename(desc, p.suffix, pattern_cleanup, max_length,
                      remove_punctuation, replace_spaces_with, case_conversion)

\* renamer.py lines 152-185: the early returns, or the call of
\* safe_file_move.  generated is FALSE when generate_filename returned None
\* (verification or the description model failed), and desc is the
\* description the model gave otherwise.
RenameCall(p, dry, generated, desc) ==
    /\ r_pc = "idle"
    /\ image_path' = p
    /\ dry_run' = dry
    /\ IF ~Exists(fs, p) \/ ~IsSupportedImage(p) \/ ~generated
         THEN /\ Returned(p, dry, None, NoPath, FALSE)
              /\ UNCHANGED <<r_pc, new_filename, moveVars>>
         ELSE IF SameName(p, GeneratedName(p, desc))
           THEN /\ Returned(p, dry, GeneratedName(p, desc), p, TRUE)
                /\ UNCHANGED <<r_pc, new_filename, moveVars>>
           ELSE IF IsDryRun(dry)
             THEN /\ Returned(p, dry, GeneratedName(p, desc),
                              TargetPath(fs, p, GeneratedName(p, desc)), TRUE)
                  /\ UNCHANGED <<r_pc, new_filename, moveVars>>
             ELSE /\ r_pc' = "moving"
                  /\ new_filename' = GeneratedName(p, desc)
                  /\ src' = p
                  /\ dst' = TargetPath(fs, p, GeneratedName(p, desc))
                  /\ pc' = "precheck"
                  /\ backup_path' = NoPath
                  /\ attempt' = 0
                  /\ outcome' = "running"
                  /\ log' = <<>>
                  /\ fs0' = fs
                  /\ UNCHANGED <<fs, max_retries, backup_originals,
                                 confirm_overwrites, results>>
    /\ UNCHANGED <<policyVars, sanVars, uniqVars, dir0, fault_limit, restVars>>

\* renamer.py lines 185-194: safe_file_move returned or raised; whatever it
\* raised is caught and the call returns False
RenameReturn ==
    /\ r_pc = "moving"
    /\ pc = "done"
    /\ IF Caught(outcome)
         THEN /\ Returned(image_path, dry_run, new_filename, dst, outcome = "True")
              /\ r_pc' = "idle"
         ELSE /\ r_pc' = "raised"
              /\ UNCHANGED results
    /\ pc' = "idle"
    /\ src' = NoPath
    /\ dst' = NoPath
    /\ backup_path' = NoPath
    /\ attempt' = 0
    /\ outcome' = "running"
    /\ log' = <<>>
    /\ fs0' = <<>>
    /\ UNCHANGED <<fs, max_retries, backup_originals, confirm_overwrites>>
    /\ UNCHANGED <<policyVars, sanVars, uniqVars, image_path, dry_run,
                   new_filename, dir0, fault_limit, restVars>>

-----------------------------------------------------------------------------
(* FileOperations.verify_image.  What is at the path is a record: its kind *)
(* ("missing", "directory" or "file"), its size in bytes and whether PIL   *)
(* decodes it.                                                             *)

Missing == [kind |-> "missing", size |-> 0, decodable |-> FALSE]

\* lines 49-51: the default of images.max_file_size_mb, in bytes
DefaultMaxFileSize == 50 * 1024 * 1024

NotVerified == "not called"

\* lines 83-112, check by check
verify_image(p, file, limit) ==
    IF ~IsSupportedImage(p)
      THEN "UnsupportedImageFormat"
      ELSE IF file.kind = "missing"
        THEN "FileOperationError: Image file not found"
        ELSE IF file.kind # "file"
          THEN "FileOperationError: Path is not a file"
          ELSE IF file.size > limit
            THEN "FileOperationError: Image file too large"
            ELSE IF ~file.decodable
              THEN "ImageCorrupted"
              ELSE "True"

\* one call verify_image(v_path)
VerifyCall ==
    /\ v_outcome = NotVerified
    /\ v_outcome' = verify_image(v_path, v_file, max_file_size)
    /\ UNCHANGED <<v_path, v_file, max_file_size>>
    /\ UNCHANGED otherThanVerify

-----------------------------------------------------------------------------
(* OllamaClient.generate_filename of the rename tool, one action per step  *)
(* of an attempt.  The service is the environment: it chooses what each    *)
(* requests.post returns or raises.                                        *)

\* what requests.post raises: Timeout, ConnectTimeout (a Timeout and a
\* ConnectionError), ConnectionError, or another RequestException
Raises == {"Timeout", "ConnectTimeout", "ConnectionError", "RequestException"}

\* line 181: isinstance(e, Timeout)
IsTimeout(kind) == kind \in {"Timeout", "ConnectTimeout"}

\* line 179: except (Timeout, ConnectionError)
IsTransient(kind) == kind \in {"Timeout", "ConnectTimeout", "ConnectionError"}

Statuses == {200, 204, 302, 400, 404, 500, 503}

\* response bodies: not JSON, JSON without "response", and JSON whose
\* "response" is empty, blank, or a text with blanks around it
Bodies ==
    { [json |-> FALSE, data |-> [raw |-> <<"<">>]],
      [json |-> TRUE,  data |-> [error |-> <<"x">>]],
      [json |-> TRUE,  data |-> [response |-> <<>>]],
      [json |-> TRUE,  data |-> [response |-> <<" ", "\t">>]],
      [json |-> TRUE,  data |-> [response |-> <<" ", "a", " ">>]] }

Replies ==
    [kind : Raises]
      \cup [kind : {"response"}, status : Statuses, body : Bodies]

NoReply == [kind |-> "none"]

StillRunning == [kind |-> "running"]

ClientRaised(error) == [kind |-> "raised", error |-> error]

ClientReturned(d) == [kind |-> "returned", description |-> d]

LastClientAttemptOneEarly == c_attempt >= retry_attempts - 2

\* lines 180 and 195: attempt == self.retry_attempts - 1
LastClientAttempt == c_attempt = retry_attempts - 1

IsRequestExceptionAlways(error) == TRUE

\* lines 21-38: the client's own exception classes derive from Exception,
\* not from requests' RequestException
IsRequestException(error) == FALSE

\* a raise inside the try of lines 116-177: the handlers of lines 179 and
\* 194 catch it only if it is one of requests' exceptions
RaiseInTry(error) ==
    IF IsRequestException(error)
      THEN /\ c_pc' = "except_request"
           /\ UNCHANGED c_outcome
      ELSE /\ c_pc' = "done"
           /\ c_outcome' = ClientRaised(error)

\* lines 115-118: the next attempt starts by encoding the image
AttemptStart ==
    /\ c_pc = "loop"
    /\ c_attempt < retry_attempts
    /\ \E readable \in BOOLEAN :
          IF readable
            THEN c_pc' = "post" /\ UNCHANGED c_outcome
            ELSE RaiseInTry("ImageCorrupted")
    /\ UNCHANGED <<retry_attempts, c_attempt, reply, requests>>
    /\ UNCHANGED otherThanClient

\* line 204: the loop ran out (only when retry_attempts is not positive)
Exhausted ==
    /\ c_pc = "loop"
    /\ c_attempt >= retry_attempts
    /\ c_pc' = "done"
    /\ c_outcome' = ClientRaised("OllamaConnectionError")
    /\ UNCHANGED <<retry_attempts, c_attempt, reply, requests>>
    /\ UNCHANGED otherThanClient

\* lines 133-138: requests.post returns a response or raises
Post ==
    /\ c_pc = "post"
    /\ \E r \in Replies :
          /\ reply' = r
          /\ requests' = Append(requests, r)
          /\ c_pc' = IF r.kind = "response" THEN "handle"
                     ELSE IF IsTransient(r.kind) THEN "except_transient"
                     ELSE "except_request"
    /\ UNCHANGED <<retry_attempts, c_attempt, c_outcome>>
    /\ UNCHANGED otherThanClient

\* lines 140-177: the status, the body, and the description
HandleResponse ==
    /\ c_pc = "handle"
    /\ IF reply.status = 404
         THEN RaiseInTry("OllamaConnectionError")
         ELSE IF reply.status >= 500
           THEN RaiseInTry("OllamaConnectionError")
           ELSE IF reply.status # 200
             THEN RaiseInTry("OllamaResponseError")
             ELSE IF ~reply.body.json
               THEN RaiseInTry("OllamaResponseError")
               ELSE IF "response" \notin DOMAIN reply.body.data
                 THEN RaiseInTry("OllamaResponseError")
                 ELSE IF Strip(reply.body.data.response, Whitespace) = <<>>
                   THEN RaiseInTry("OllamaResponseError")
                   ELSE /\ c_pc' = "done"
                        /\ c_outcome' = ClientReturned(
                              Strip(reply.body.data.response, Whitespace))
    /\ UNCHANGED <<retry_attempts, c_attempt, reply, requests>>
    /\ UNCHANGED otherThanClient

\* lines 179-192: except (Timeout, ConnectionError)
ExceptTransient ==
    /\ c_pc = "except_transient"
    /\ IF LastClientAttempt
         THEN /\ c_pc' = "done"
              /\ c_outcome' = IF IsTimeout(reply.kind)
                                THEN ClientRaised("OllamaTimeoutError")
                                ELSE ClientRaised("OllamaConnectionError")
              /\ UNCHANGED c_attempt
         ELSE /\ c_pc' = "loop"
              /\ c_attempt' = c_attempt + 1
              /\ UNCHANGED c_outcome
    /\ UNCHANGED <<retry_attempts, reply, requests>>
    /\ UNCHANGED otherThanClient

\* lines 194-201: except RequestException
ExceptRequest ==
    /\ c_pc = "except_request"
    /\ IF LastClientAttempt
         THEN /\ c_pc' = "done"
              /\ c_outcome' = ClientRaised("OllamaConnectionError")
              /\ UNCHANGED c_attempt
         ELSE /\ c_pc' = "loop"
              /\ c_attempt' = c_attempt + 1
              /\ UNCHANGED c_outcome
    /\ UNCHANGED <<retry_attempts, reply, requests>>
    /\ UNCHANGED otherThanClient

\* lines 92-204
generate_filename ==
    \/ AttemptStart
    \/ Exhausted
    \/ Post
    \/ HandleResponse
    \/ ExceptTransient
    \/ ExceptRequest

-----------------------------------------------------------------------------
(* Specification of one call safe_file_move(a.jpg, b.jpg): the             *)
(* configuration, and whether a.jpg and b.jpg exist, are free.             *)

\* the defaults of ImageRenamer.__init__, lines 42-46
DefaultMaxLength == 100

DefaultPolicy ==
    /\ pattern_cleanup = TRUE
    /\ max_length = DefaultMaxLength
    /\ remove_punctuation = TRUE
    /\ replace_spaces_with = "-"
    /\ case_conversion = "lower"

NoSanitizeCall ==
    /\ description = <<>>
    /\ original_extension = ".jpg"
    /\ sanitized = NotCalled
    /\ resanitized = NotCalled

NoMoveCall ==
    /\ max_retries = 0
    /\ backup_originals = FALSE
    /\ confirm_overwrites = TRUE
    /\ pc = "idle"
    /\ src = NoPath
    /\ dst = NoPath
    /\ backup_path = NoPath
    /\ attempt = 0
    /\ outcome = "running"
    /\ log = <<>>
    /\ fs0 = <<>>

NoUniqueCall ==
    /\ base_path = NoPath
    /\ suffix_arg = <<>>
    /\ resolved = <<>>

NoClientCall ==
    /\ retry_attempts = 0
    /\ c_pc = "idle"
    /\ c_attempt = 0
    /\ reply = NoReply
    /\ requests = <<>>
    /\ c_outcome = StillRunning

NoVerifyCall ==
    /\ v_path = NoPath
    /\ v_file = Missing
    /\ max_file_size = DefaultMaxFileSize
    /\ v_outcome = NotVerified

NoMetaStats == [total_files |-> 0, processed |-> 0, failed |-> 0, renamed |-> 0]

NoMetaCall ==
    /\ db = <<>>
    /\ xmp = <<>>
    /\ m_retry_attempts = 0
    /\ m_pc = "idle"
    /\ m_path = NoPath
    /\ m_description = ""
    /\ w_attempt = 0
    /\ m_log = <<>>
    /\ m_result = FALSE
    /\ m_results = <<>>
    /\ pd_pc = "idle"
    /\ sanitize_names = FALSE
    /\ norm_files = <<>>
    /\ norm_index = 0
    /\ renamed_count = 0
    /\ pd_files = <<>>
    /\ pd_index = 0
    /\ pd_processed = 0
    /\ pd_failed = 0
    /\ pd_stats = NoMetaStats

\* the watch script is not running
NoWatch ==
    /\ events = <<>>
    /\ external_left = 0
    /\ w_pc = "idle"
    /\ w_src = NoPath
    /\ w_dst = NoPath
    /\ watch_attempt = 0
    /\ watch_faults = 0

\* nothing but the file handling of the rename tool is running
NoOtherCall == NoClientCall /\ NoVerifyCall /\ NoMetaCall /\ NoWatch

NoStats == [total_files |-> 0, processed |-> 0, failed |-> 0, skipped |-> 0]

NoDirectoryCall ==
    /\ d_pc = "idle"
    /\ image_files = <<>>
    /\ d_index = 0
    /\ processed_count = 0
    /\ failed_count = 0
    /\ stats = NoStats

NoRenameCall ==
    /\ r_pc = "idle"
    /\ image_path = NoPath
    /\ dry_run = FALSE
    /\ new_filename = <<>>
    /\ results = <<>>
    /\ dir0 = <<>>
    /\ fault_limit = NoLimit

SrcPath == Path("dir", <<"a">>, ".jpg")

DstPath == Path("dir", <<"b">>, ".jpg")

InitialFiles ==
    { f \in [ {SrcPath, DstPath} -> {"orig", "old", "none"} ] :
        /\ f[SrcPath] \in {"orig", "none"}
        /\ f[DstPath] \in {"old", "none"} }

\* the files of f that exist
Present(f) == [p \in {q \in DOMAIN f : f[q] # "none"} |-> f[p]]

InitMove ==
    /\ \E f \in InitialFiles : fs = Present(f)
    /\ max_retries \in 0..MaxRetriesBound
    /\ backup_originals \in BOOLEAN
    /\ confirm_overwrites \in BOOLEAN
    /\ pc = "precheck"
    /\ src = SrcPath
    /\ dst = DstPath
    /\ backup_path = NoPath
    /\ attempt = 0
    /\ outcome = "running"
    /\ log = <<>>
    /\ fs0 = fs
    /\ DefaultPolicy
    /\ NoSanitizeCall
    /\ NoUniqueCall
    /\ NoRenameCall
    /\ NoDirectoryCall
    /\ NoOtherCall

SpecMove == InitMove /\ [][safe_file_move]_vars

Spec == SpecMove

-----------------------------------------------------------------------------
(* Specification of one call of sanitize_filename: the description and the *)
(* naming policy are free.                                                 *)

\* a lower-case and an upper-case letter, blank and tab, a punctuation mark
\* that rstrip removes, a path separator, and the default separator
DescChars == {"a", "B", " ", "\t", "!", "/", "-"}

Strings(chars, n) == UNION { [1..k -> chars] : k \in 0..n }

\* some longer descriptions, of several words
LongerDescriptions ==
    { <<"a", " ", "b", " ", "a">>,
      <<"a", "B", " ", "a", " ", "b">>,
      <<"B", "a", "\t", "a", " ", " ", "b", "!">>,
      <<"-", "a", "b", " ", "a", "/", "b">>,
      <<" ", "a", "b", "a", "B", "a", "b", "!", "!">> }

CaseModes == {"lower", "upper", "title", "none"}

Separators == {"-", "_"}

InitSanitize ==
    /\ description \in Strings(DescChars, MaxDescLen) \cup LongerDescriptions
    /\ original_extension = ".jpg"
    /\ sanitized = NotCalled
    /\ resanitized = NotCalled
    /\ pattern_cleanup \in BOOLEAN
    /\ max_length \in 1..MaxLengthBound \cup {DefaultMaxLength}
    /\ remove_punctuation \in BOOLEAN
    /\ replace_spaces_with \in Separators
    /\ case_conversion \in CaseModes
    /\ fs = <<>>
    /\ NoMoveCall
    /\ NoUniqueCall
    /\ NoRenameCall
    /\ NoDirectoryCall
    /\ NoOtherCall

NextSanitize == SanitizeCall \/ SanitizeAgain

SpecSanitize == InitSanitize /\ [][NextSanitize]_vars

-----------------------------------------------------------------------------
(* Specification of get_unique_filename calls for one candidate: the       *)
(* existing paths are free; between calls the caller may create the path   *)
(* it was last given.                                                      *)

\* most filesystem calls that fail in one run of the rename workflow
MaxFaults == 2

\* most calls of get_unique_filename in one run
MaxResolves == 3

\* the numbered names p_1 .. p_MaxNumbered may exist beside the candidate
MaxNumbered == 4

Candidates ==
    { Path("dir", <<"p">>, ".jpg"), Path("dir", <<"p">>, ".png"),
      Path("sub", <<"p">>, ".jpg"), Path("dir", <<"p", "_", "1">>, ".jpg") }

UniquePaths ==
    Candidates
    \cup { Numbered(Path("dir", <<"p">>, ".jpg"), <<>>, k) : k \in 1..MaxNumbered }
    \cup { Numbered(Path("dir", <<"p">>, ".jpg"), <<"x">>, 1),
           Path("dir", <<"p", "x">>, ".jpg") }

InitUnique ==
    /\ \E existing \in SUBSET UniquePaths : fs = [q \in existing |-> "old"]
    /\ base_path \in Candidates
    /\ suffix_arg \in {<<>>, <<"x">>}
    /\ resolved = <<>>
    /\ NoMoveCall
    /\ DefaultPolicy
    /\ NoSanitizeCall
    /\ NoRenameCall
    /\ NoDirectoryCall
    /\ NoOtherCall

Resolve ==
    /\ Len(resolved) < MaxResolves
    /\ UniqueCall
    /\ UNCHANGED fs

\* the caller creates the file at the path it was last given
CreateResolved ==
    /\ resolved # <<>>
    /\ ~Exists(fs, resolved[Len(resolved)].result)
    /\ fs' = Copy2(fs @@ (NoPath :> "new"), NoPath, resolved[Len(resolved)].result)
    /\ UNCHANGED <<max_retries, backup_originals, confirm_overwrites, pc, src,
                   dst, backup_path, attempt, outcome, log, fs0>>
    /\ UNCHANGED <<policyVars, sanVars, uniqVars, renameVars, restVars, dirVars>>

NextUnique == Resolve \/ CreateResolved

SpecUnique == InitUnique /\ [][NextUnique]_vars

-----------------------------------------------------------------------------
(* Specification of the rename workflow on one directory: calls of         *)
(* rename_single_image, one file after the other, each file once.          *)

\* the images of the directory, in the order of the listing
ImageList ==
    << Path("dir", <<"b">>, ".jpg"), Path("dir", <<"d">>, ".jpg"),
       Path("dir", <<"e">>, ".jpg") >>

ImagePaths == { ImageList[i] : i \in DOMAIN ImageList }

\* files that may be there too, under names the renames want
OtherPaths ==
    { Path("dir", <<"a">>, ".jpg"), Path("dir", <<"a", "_", "1">>, ".jpg") }

\* what the description model may answer: "A!" and "b"
Descriptions == { <<"A", "!">>, <<"b">> }

\* every file holds its own content, named after the path it starts at
InitialDirectory(others) == [q \in ImagePaths \cup others |-> q]

InitRename ==
    /\ \E others \in SUBSET OtherPaths : fs = InitialDirectory(others)
    /\ dir0 = fs
    /\ max_retries \in 1..MaxFaults
    /\ backup_originals \in BOOLEAN
    /\ confirm_overwrites \in BOOLEAN
    /\ pc = "idle"
    /\ src = NoPath
    /\ dst = NoPath
    /\ backup_path = NoPath
    /\ attempt = 0
    /\ outcome = "running"
    /\ log = <<>>
    /\ fs0 = <<>>
    /\ DefaultPolicy
    /\ NoSanitizeCall
    /\ NoUniqueCall
    /\ NoOtherCall
    /\ NoDirectoryCall
    /\ r_pc = "idle"
    /\ image_path = NoPath
    /\ dry_run \in BOOLEAN
    /\ new_filename = <<>>
    /\ results = <<>>
    /\ fault_limit = <<MaxFaults>>

\* the next call: on the next image of the listing, for which the
\* description model answers or fails
rename_single_image ==
    /\ Len(results) < Len(ImageList)
    /\ \/ \E desc \in Descriptions :
             RenameCall(ImageList[Len(results) + 1], dry_run, TRUE, desc)
       \/ RenameCall(ImageList[Len(results) + 1], dry_run, FALSE, <<>>)
    /\ UNCHANGED dirVars

\* the call returns
rename_single_image_returns == RenameReturn /\ UNCHANGED dirVars

NextRename ==
    \/ rename_single_image
    \/ (r_pc = "moving" /\ safe_file_move)
    \/ rename_single_image_returns

SpecRename == InitRename /\ [][NextRename]_vars

-----------------------------------------------------------------------------
(* Observations on the history of one safe_file_move call.                 *)

Range(s) == { s[i] : i \in DOMAIN s }

IsCopy(e) == e \in {"copy ok", "copy failed"}

IsFailure(e) ==
    e \in {"backup failed", "copy failed", "unlink src failed",
           "unlink backup failed", "unlink dst failed", "restore failed"}

IsUnlinkFailure(e) ==
    e \in {"unlink src failed", "unlink backup failed", "unlink dst failed"}

\* the number of shutil.copy2(src, dst) calls made so far
Copies == Len(SelectSeq(log, IsCopy))

Failures == SelectSeq(log, IsFailure)

Raised == pc = "done" /\ outcome \notin {"True", "False"}

\* the file that was at src when the call started is now at p
HoldsOriginal(p) == Exists(fs, p) /\ Exists(fs0, src) /\ fs[p] = fs0[src]

SrcOnly == Exists(fs, src) /\ ~Exists(fs, dst)

DstOnly == Exists(fs, dst) /\ ~Exists(fs, src)

-----------------------------------------------------------------------------
(* ImageRenamer.rename_directory (not recursive): the listing, then one    *)
(* rename_single_image call per listed file.                               *)

\* the names a directory may hold, in the order in which glob lists them
DirList ==
    << Path("dir", <<"a">>, ".jpg"), Path("dir", <<"b">>, ".jpg"),
       Path("dir", <<"d">>, ".jpg"), Path("dir", <<"n">>, ".txt") >>

\* renamer.py lines 224-231: the files of the directory that are images
Listing(f) ==
    SelectSeq(DirList, LAMBDA q : Exists(f, q) /\ IsSupportedImage(q))

\* renamer.py lines 260-263: the call that has just returned is counted
Counted ==
    IF r_pc' = "idle"
      THEN /\ d_index' = d_index + 1
           /\ IF results'[Len(results')].result
                THEN /\ processed_count' = processed_count + 1
                     /\ UNCHANGED failed_count
                ELSE /\ failed_count' = failed_count + 1
                     /\ UNCHANGED processed_count
      ELSE UNCHANGED <<d_index, processed_count, failed_count>>

\* renamer.py lines 217-243: the listing, and the return when it is empty
Enumerate ==
    /\ d_pc = "start"
    /\ image_files' = Listing(fs)
    /\ d_index' = 0
    /\ processed_count' = 0
    /\ failed_count' = 0
    /\ IF Listing(fs) = <<>>
         THEN /\ d_pc' = "returned"
              /\ stats' = [total_files |-> 0, processed |-> 0, failed |-> 0,
                           skipped |-> 0]
         ELSE /\ d_pc' = "loop"
              /\ UNCHANGED stats
    /\ UNCHANGED <<moveVars, policyVars, sanVars, uniqVars, renameVars, restVars>>

\* renamer.py lines 258-263: the call for the next file of the listing, for
\* which the description model answers or fails
DirectoryCall ==
    /\ d_pc = "loop"
    /\ d_index < Len(image_files)
    /\ \/ \E desc \in Descriptions :
             RenameCall(image_files[d_index + 1], dry_run, TRUE, desc)
       \/ RenameCall(image_files[d_index + 1], dry_run, FALSE, <<>>)
    /\ Counted
    /\ UNCHANGED <<d_pc, image_files, stats>>

\* the steps of safe_file_move inside that call
DirectoryMove ==
    /\ d_pc = "loop"
    /\ r_pc = "moving"
    /\ safe_file_move

\* renamer.py lines 259-263 and 294-298: the call returns and is counted;
\* were it to raise, rename_directory would raise ImageRenameError
DirectoryCallReturns ==
    /\ d_pc = "loop"
    /\ RenameReturn
    /\ Counted
    /\ d_pc' = IF r_pc' = "raised" THEN "raised" ELSE d_pc
    /\ UNCHANGED <<image_files, stats>>

\* renamer.py lines 278-292: the loop is over
DirectoryReturn ==
    /\ d_pc = "loop"
    /\ r_pc = "idle"
    /\ d_index >= Len(image_files)
    /\ d_pc' = "returned"
    /\ stats' = [total_files |-> Len(image_files), processed |-> processed_count,
                 failed |-> failed_count, skipped |-> 0]
    /\ UNCHANGED <<image_files, d_index, processed_count, failed_count>>
    /\ UNCHANGED <<moveVars, policyVars, sanVars, uniqVars, renameVars, restVars>>

\* renamer.py lines 196-298
rename_directory ==
    \/ Enumerate
    \/ DirectoryCall
    \/ DirectoryMove
    \/ DirectoryCallReturns
    \/ DirectoryReturn

-----------------------------------------------------------------------------
(* Specification of one call rename_directory(dir, dry_run): the files of  *)
(* the directory, the configuration and the answers of the description     *)
(* model are free; at most MaxFaults filesystem calls fail.                *)

InitDirectory ==
    /\ \E present \in SUBSET {DirList[i] : i \in DOMAIN DirList} :
          fs = [q \in present |-> q]
    /\ dir0 = fs
    /\ max_retries \in 1..MaxFaults
    /\ backup_originals \in BOOLEAN
    /\ confirm_overwrites \in BOOLEAN
    /\ pc = "idle"
    /\ src = NoPath
    /\ dst = NoPath
    /\ backup_path = NoPath
    /\ attempt = 0
    /\ outcome = "running"
    /\ log = <<>>
    /\ fs0 = <<>>
    /\ DefaultPolicy
    /\ NoSanitizeCall
    /\ NoUniqueCall
    /\ NoOtherCall
    /\ r_pc = "idle"
    /\ image_path = NoPath
    /\ dry_run \in BOOLEAN
    /\ new_filename = <<>>
    /\ results = <<>>
    /\ fault_limit = <<MaxFaults>>
    /\ d_pc = "start"
    /\ image_files = <<>>
    /\ d_index = 0
    /\ processed_count = 0
    /\ failed_count = 0
    /\ stats = NoStats

SpecDirectory == InitDirectory /\ [][rename_directory]_vars

-----------------------------------------------------------------------------
(* Specification of one call OllamaClient.generate_filename(image_path):   *)
(* the attempt count and the replies of the service are free.              *)

\* largest retry_attempts explored
MaxAttempts == 3

InitClient ==
    /\ retry_attempts \in 0..MaxAttempts
    /\ c_pc = "loop"
    /\ c_attempt = 0
    /\ reply = NoReply
    /\ requests = <<>>
    /\ c_outcome = StillRunning
    /\ fs = <<>>
    /\ NoMoveCall
    /\ DefaultPolicy
    /\ NoSanitizeCall
    /\ NoUniqueCall
    /\ NoRenameCall
    /\ NoDirectoryCall
    /\ NoVerifyCall
    /\ NoMetaCall
    /\ NoWatch

SpecClient == InitClient /\ [][generate_filename]_vars

-----------------------------------------------------------------------------
(* Specification of one call verify_image(v_path): the suffix of the path  *)
(* and what is at the path are free.                                       *)

Suffixes == {".png", ".jpg", ".jpeg", ".gif", ".bmp", ".txt", ".tiff", ""}

\* what may be at the path
FilesAt(limit) ==
    {Missing}
      \cup [kind : {"directory"}, size : {0}, decodable : {FALSE}]
      \cup [kind : {"file"}, size : {0, limit, limit + 1}, decodable : BOOLEAN]

InitVerify ==
    /\ \E sfx \in Suffixes : v_path = Path("dir", <<"a">>, sfx)
    /\ max_file_size = DefaultMaxFileSize
    /\ v_file \in FilesAt(max_file_size)
    /\ v_outcome = NotVerified
    /\ fs = <<>>
    /\ NoMoveCall
    /\ DefaultPolicy
    /\ NoSanitizeCall
    /\ NoUniqueCall
    /\ NoRenameCall
    /\ NoDirectoryCall
    /\ NoClientCall
    /\ NoMetaCall
    /\ NoWatch

SpecVerify == InitVerify /\ [][VerifyCall]_vars

-----------------------------------------------------------------------------
(* Claims about safe_file_move, checked under SpecMove.                    *)

\* C1: started with src present, safe_file_move never reaches a state in
\* which neither src nor dst exists, at any step and on any exit path, for
\* any pattern of copy and delete failures.
C1_NeverZeroCopies ==
    Exists(fs0, src) => (Exists(fs, src) \/ Exists(fs, dst))

\* C2 as stated: after any call with backups disabled, returned or raised,
\* exactly one of "src exists and dst does not", "dst exists and src does
\* not" holds.
C2_ExactlyOneAfterAnyCall ==
    (pc = "done" /\ ~backup_originals) => (SrcOnly \/ DstOnly)

\* C2 amended: with backups disabled and a call started with src present and
\* dst absent, a call that returns True leaves dst only (holding the
\* original); a call that returns False or raises leaves src, and leaves dst
\* beside it only when removing the copy (dst.unlink) failed.
C2_ExactlyOneFromFreshDst ==
    (pc = "done" /\ ~backup_originals /\ Exists(fs0, src) /\ ~Exists(fs0, dst))
        => IF outcome = "True"
             THEN DstOnly /\ HoldsOriginal(dst)
             ELSE /\ HoldsOriginal(src)
                  /\ Exists(fs, dst) => "unlink dst failed" \in Range(log)

\* a move that failed after it had made a copy, from src present, dst absent
C2_Witness ==
    /\ pc = "done" /\ ~backup_originals
    /\ Exists(fs0, src) /\ ~Exists(fs0, dst)
    /\ outcome = "FilePermissionError"
    /\ "copy ok" \in Range(log)
    /\ SrcOnly

\* C3: with max_retries = 3, when removing the original fails on the first
\* two attempts and succeeds on the third (the other calls succeeding), the
\* move returns True after exactly 3 copies, with dst present and src gone.
C3_ThirdAttemptSucceeds ==
    (/\ pc = "done"
     /\ max_retries = 3
     /\ Failures = <<"unlink src failed", "unlink src failed">>)
        => /\ outcome = "True"
           /\ Copies = 3
           /\ DstOnly
           /\ HoldsOriginal(dst)

C3_Witness ==
    /\ pc = "done"
    /\ max_retries = 3
    /\ Failures = <<"unlink src failed", "unlink src failed">>
    /\ "unlink src ok" \in Range(log)
    /\ outcome = "True"

\* C4: if dst exists and confirm_overwrites is enabled, the call fails at
\* once with the destination-exists FileOperationError: no backup, no copy,
\* no retry, and the filesystem is as it was.
C4_RefusesToOverwrite ==
    (Exists(fs0, dst) /\ confirm_overwrites /\ pc # "precheck")
        => /\ pc = "done"
           /\ outcome = "FileOperationError: Destination file already exists"
           /\ log = <<>>
           /\ attempt = 0
           /\ backup_path = NoPath
           /\ fs = fs0

C4_Witness ==
    /\ Exists(fs0, dst) /\ Exists(fs0, src)
    /\ confirm_overwrites /\ backup_originals /\ max_retries > 1
    /\ pc = "done"

\* C5: when every copy fails, the call makes exactly max_retries copies and
\* raises the move-failed FileOperationError with src still present and dst
\* as it was; when copies fail and then one succeeds (no removal failing),
\* the move succeeds.
C5_CopyFailures ==
    (pc = "done" /\ Exists(fs0, src) /\ Copies >= 1)
        => /\ "copy ok" \notin Range(log)
              => /\ Copies = max_retries
                 /\ outcome = "FileOperationError: File move failed"
                 /\ HoldsOriginal(src)
                 /\ Exists(fs, dst) = Exists(fs0, dst)
                 /\ Exists(fs, dst) => fs[dst] = fs0[dst]
           /\ ("copy ok" \in Range(log)
               /\ \A i \in DOMAIN log : ~IsUnlinkFailure(log[i]))
              => /\ outcome = "True"
                 /\ Copies <= max_retries
                 /\ DstOnly
                 /\ HoldsOriginal(dst)

\* every copy failed, with more than one attempt configured
C5_WitnessAllFail ==
    /\ pc = "done" /\ Exists(fs0, src) /\ ~Exists(fs0, dst)
    /\ max_retries = 3 /\ Copies = 3
    /\ "copy ok" \notin Range(log)

-----------------------------------------------------------------------------
(* Claims about get_unique_filename, checked under SpecUnique.             *)

\* C6: for every set of existing paths and every candidate p,
\* get_unique_filename(p) returns a path that is not in the set, with the
\* parent directory and the extension of p, and it returns p itself when p
\* is not in the set.
C6_ResolvedIsFree ==
    suffix_arg = <<>>
        => \A i \in DOMAIN resolved :
              /\ resolved[i].result \notin resolved[i].existing
              /\ resolved[i].result.parent = base_path.parent
              /\ resolved[i].result.suffix = base_path.suffix
              /\ base_path \notin resolved[i].existing
                    => resolved[i].result = base_path

\* the candidate and its first numbered name exist: the second is returned
C6_Witness ==
    /\ suffix_arg = <<>>
    /\ resolved # <<>>
    /\ base_path \in resolved[1].existing
    /\ Numbered(base_path, <<>>, 1) \in resolved[1].existing
    /\ resolved[1].result = Numbered(base_path, <<>>, 2)

\* C7 as stated: the candidate exists and get_unique_filename is called
\* twice for it before the first returned path is created; the second
\* result differs from the first.
C7_SecondCallDiffers ==
    \A i \in DOMAIN resolved :
        (/\ i + 1 \in DOMAIN resolved
         /\ base_path \in resolved[i].existing
         /\ resolved[i].result \notin resolved[i + 1].existing)
            => resolved[i + 1].result # resolved[i].result

\* C7 amended: the candidate exists and get_unique_filename is called twice
\* for it; the second result differs from the first exactly when the first
\* returned path has been created between the two calls (the function
\* reserves nothing).
C7_SecondDiffersIffCreated ==
    \A i \in DOMAIN resolved :
        (/\ i + 1 \in DOMAIN resolved
         /\ base_path \in resolved[i].existing)
            => (resolved[i + 1].result # resolved[i].result
                  <=> resolved[i].result \in resolved[i + 1].existing)

\* photo_1.jpg, created, then photo_2.jpg
C7_Witness ==
    /\ suffix_arg = <<>>
    /\ Len(resolved) >= 2
    /\ base_path \in resolved[1].existing
    /\ resolved[1].result = Numbered(base_path, <<>>, 1)
    /\ resolved[1].result \in resolved[2].existing
    /\ resolved[2].result = Numbered(base_path, <<>>, 2)

-----------------------------------------------------------------------------
(* Claims about rename_single_image, checked under SpecRename.             *)

\* the calls made so far were all given the same generated filename
SameFilename ==
    /\ results # <<>>
    /\ results[1].new_filename # None
    /\ \A i \in DOMAIN results : results[i].new_filename = results[1].new_filename

\* the contents of the files of f
Contents(f) == { f[q] : q \in DOMAIN f }

\* C8: with confirm_overwrites enabled, after any sequence of
\* rename_single_image calls (not dry-run) on distinct files of a directory
\* whose descriptions sanitize to the same filename, while no filesystem
\* call fails, every call has succeeded and the directory holds as many
\* files as before, with the contents it had before; and, whatever fails,
\* no file other than the ones the calls were given is touched.
C8_CollisionsKeepEveryFile ==
    (confirm_overwrites /\ ~dry_run /\ SameFilename)
        => /\ (r_pc = "idle" /\ FaultsSoFar = 0)
                 => /\ \A i \in DOMAIN results : results[i].result
                    /\ Cardinality(DOMAIN fs) = Cardinality(DOMAIN dir0)
                    /\ Contents(fs) = Contents(dir0)
           /\ \A q \in DOMAIN dir0 \ ImagePaths :
                 Exists(fs, q) /\ fs[q] = dir0[q]

\* three images were given the name a.jpg, which was taken, as a_1.jpg was
C8_Witness ==
    /\ confirm_overwrites /\ ~dry_run /\ SameFilename
    /\ r_pc = "idle" /\ FaultsSoFar = 0
    /\ Len(results) = Len(ImageList)
    /\ OtherPaths \subseteq DOMAIN dir0
    /\ results[1].new_filename = <<"a", ".jpg">>
    /\ \A i \in DOMAIN results : results[i].result
    /\ \A i \in DOMAIN results :
          results[i].new_path = Numbered(NewPath(ImageList[1], <<"a", ".jpg">>), <<>>, i + 1)
    /\ \A i \in DOMAIN results :
          Exists(fs, results[i].new_path) /\ fs[results[i].new_path] = ImageList[i]

-----------------------------------------------------------------------------
(* Claims about sanitize_filename, checked under SpecSanitize.             *)

\* C9: for every description and every naming policy with max_length >= 1,
\* the returned filename ends with the supplied extension and its stem is
\* non-empty and at most max_length characters long, the placeholder
\* "unnamed" included.
C9_StemWithinMaxLength ==
    sanitized # NotCalled
        => /\ ExtensionOf(sanitized) = original_extension
           /\ StemOf(sanitized) # <<>>
           /\ Len(StemOf(sanitized)) <= max_length

\* C10: with pattern cleanup enabled the returned stem holds only characters
\* of [a-zA-Z0-9] and the separator, no path separator, and no leading,
\* trailing or consecutive separators, whatever whitespace the input holds.
C10_CleanStem ==
    (sanitized # NotCalled /\ pattern_cleanup)
        => LET stem == StemOf(sanitized)
               sep  == replace_spaces_with
           IN  /\ \A i \in DOMAIN stem : IsAlnum(stem[i]) \/ stem[i] = sep
               /\ \A i \in DOMAIN stem : stem[i] # "/"
               /\ stem[1] # sep
               /\ stem[Len(stem)] # sep
               /\ \A i \in 1..(Len(stem) - 1) : ~(stem[i] = sep /\ stem[i + 1] = sep)

\* C11: sanitize_filename is idempotent on normalized input: applied, under
\* the same policy with pattern cleanup, to the stem it returned, it returns
\* that stem again.
C11_IdempotentOnOwnStem ==
    (resanitized # NotCalled /\ pattern_cleanup)
        => StemOf(resanitized) = StemOf(sanitized)

-----------------------------------------------------------------------------
(* Claims about OllamaClient.generate_filename, checked under SpecClient.  *)

\* the service answered with a 5xx status
IsServerError(r) == r.kind = "response" /\ r.status >= 500

\* the service answered 200 with a JSON body holding a non-blank "response"
IsDescription(r) ==
    /\ r.kind = "response"
    /\ r.status = 200
    /\ r.body.json
    /\ "response" \in DOMAIN r.body.data
    /\ Strip(r.body.data.response, Whitespace) # <<>>

\* the service answered, neither with a description nor with a 5xx status
IsNonTransient(r) ==
    /\ r.kind = "response"
    /\ ~IsServerError(r)
    /\ ~IsDescription(r)

\* the image could be read at every attempt
ImageReadable == c_outcome # ClientRaised("ImageCorrupted")

\* C12: against a service that answers every request with HTTP 500 (or
\* another 5xx status), generate_filename makes exactly retry_attempts
\* requests and then raises the connection error.
C12_ServerErrorsRetried ==
    (/\ c_pc = "done"
     /\ requests # <<>>
     /\ \A i \in DOMAIN requests : IsServerError(requests[i]))
        => /\ Len(requests) = retry_attempts
           /\ c_outcome = ClientRaised("OllamaConnectionError")

\* C13: when every request times out, generate_filename makes exactly
\* retry_attempts requests and raises OllamaTimeoutError; when every
\* connection is refused, it makes exactly retry_attempts requests and
\* raises OllamaConnectionError (the image being readable at each attempt);
\* and a description received at any attempt is returned, no request
\* following it.
C13_TransientRetried ==
    /\ (c_pc = "done" /\ requests # <<>> /\ ImageReadable)
          => /\ (\A i \in DOMAIN requests : IsTimeout(requests[i].kind))
                   => /\ Len(requests) = retry_attempts
                      /\ c_outcome = ClientRaised("OllamaTimeoutError")
             /\ (\A i \in DOMAIN requests : requests[i].kind = "ConnectionError")
                   => /\ Len(requests) = retry_attempts
                      /\ c_outcome = ClientRaised("OllamaConnectionError")
    /\ \A i \in DOMAIN requests :
          IsDescription(requests[i])
             => /\ i = Len(requests)
                /\ i <= retry_attempts
                /\ c_pc \in {"handle", "done"}
                /\ c_pc = "done"
                      => c_outcome = ClientReturned(
                            Strip(requests[i].body.data.response, Whitespace))

\* three attempts, each timed out
C13_Witness ==
    /\ c_pc = "done"
    /\ retry_attempts = 3
    /\ Len(requests) = 3
    /\ \A i \in DOMAIN requests : requests[i].kind = "Timeout"
    /\ c_outcome = ClientRaised("OllamaTimeoutError")

\* the error of a non-transient answer: lines 141-169
ErrorOf(r) ==
    IF r.status = 404 THEN "OllamaConnectionError" ELSE "OllamaResponseError"

\* C14: a non-transient answer (status 404, another non-200 status below
\* 500, a body that is not JSON, a body without "response", an empty or
\* blank response text) is the last request made: generate_filename raises
\* at once, the connection error for 404 and the response error otherwise;
\* as the first answer, it is the only request.
C14_NonTransientNotRetried ==
    \A i \in DOMAIN requests :
        IsNonTransient(requests[i])
           => /\ i = Len(requests)
              /\ c_pc \in {"handle", "done"}
              /\ c_pc = "done" => c_outcome = ClientRaised(ErrorOf(requests[i]))

\* a blank description at the first of three attempts
C14_Witness ==
    /\ c_pc = "done"
    /\ retry_attempts = 3
    /\ Len(requests) = 1
    /\ requests[1].kind = "response"
    /\ requests[1].status = 200
    /\ requests[1].body = [json |-> TRUE, data |-> [response |-> <<" ", "\t">>]]
    /\ c_outcome = ClientRaised("OllamaResponseError")

-----------------------------------------------------------------------------
(* Claims about verify_image, checked under SpecVerify.                    *)

\* the checks in the order existence, regular file, extension, size,
\* decodability
ExistenceFirst(p, file, limit) ==
    IF file.kind = "missing"
      THEN "FileOperationError: Image file not found"
      ELSE IF file.kind # "file"
        THEN "FileOperationError: Path is not a file"
        ELSE IF ~IsSupportedImage(p)
          THEN "UnsupportedImageFormat"
          ELSE IF file.size > limit
            THEN "FileOperationError: Image file too large"
            ELSE IF ~file.decodable
              THEN "ImageCorrupted"
              ELSE "True"

\* C15: verify_image reports the error of the first failing check in the
\* order existence, regular file, extension, size, decodability; a missing
\* path with an unsupported extension is reported as not found.
C15_ExistenceCheckedFirst ==
    v_outcome # NotVerified
        => v_outcome = ExistenceFirst(v_path, v_file, max_file_size)

-----------------------------------------------------------------------------
(* Claims about rename_single_image and rename_directory.                  *)

\* the call recorded in r was given the name the file already has
IsSameNameCall(r) ==
    /\ r.new_filename # None
    /\ NewPath(r.image, r.new_filename) = r.image

\* C16 (under SpecRename): a rename_single_image call whose generated
\* filename equals the file's current name returns at once, without a move
\* having been started, reports success, and leaves the filesystem as it is.
C16_SameNameIsNoOp ==
    [][ (Len(results') > Len(results)
         /\ IsSameNameCall(results'[Len(results')]))
           => /\ r_pc = "idle" /\ r_pc' = "idle"
              /\ results'[Len(results')].result
              /\ results'[Len(results')].new_path = results'[Len(results')].image
              /\ fs' = fs
              /\ pc' = "idle"
              /\ log' = log ]_vars

\* b.jpg was described as "b", not in a dry run
C16_Witness ==
    /\ ~dry_run
    /\ Len(results) = 1
    /\ results[1].image = ImageList[1]
    /\ results[1].new_filename = <<"b", ".jpg">>
    /\ results[1].result
    /\ fs = dir0

\* the calls that reported success
Succeeded == { i \in DOMAIN results : results[i].result }

\* C17 (under SpecDirectory): with dry_run enabled, no step of
\* safe_file_move is ever taken and the files and their names stay as they
\* were, while every call for which a filename was generated reports
\* success (and only those), and rename_directory counts them as processed.
C17_DryRunChangesNothing ==
    dry_run
        => /\ fs = dir0
           /\ pc = "idle"
           /\ r_pc = "idle"
           /\ log = <<>>
           /\ \A i \in DOMAIN results :
                 results[i].result <=> results[i].new_filename # None
           /\ d_pc = "returned"
                 => /\ Len(results) = Len(Listing(dir0))
                    /\ stats.processed = Cardinality(Succeeded)

\* a dry run over three images, one of which got no description, and one
\* of which would have been renamed to a numbered name
C17_Witness ==
    /\ dry_run
    /\ d_pc = "returned"
    /\ Len(image_files) = 3
    /\ stats.processed = 2
    /\ stats.failed = 1
    /\ \E i \in DOMAIN results :
          /\ results[i].result
          /\ results[i].new_path = Numbered(DirList[1], <<>>, 1)
    /\ fs = dir0

\* C18 (under SpecDirectory): rename_single_image never raises, whatever
\* fails for a file, and rename_directory does not abort; every call that
\* has returned, with success or failure, has moved the loop on to the next
\* file of the listing; and when rename_directory returns, every listed
\* file has been given to a call, in the order of the listing.
C18_FailuresStayPerFile ==
    /\ r_pc # "raised"
    /\ d_pc # "raised"
    /\ Len(results) <= Len(image_files)
    /\ \A i \in DOMAIN results : results[i].image = image_files[i]
    /\ (d_pc = "loop" /\ r_pc = "idle") => d_index = Len(results)
    /\ d_pc = "returned"
          => /\ Len(results) = Len(image_files)
             /\ stats.total_files = Len(image_files)

\* the move of the first of three files failed, the second file got no
\* description, and the third was renamed
C18_Witness ==
    /\ ~dry_run
    /\ d_pc = "returned"
    /\ Len(image_files) = 3
    /\ results[1].new_filename # None /\ ~results[1].result /\ results[1].faults > 0
    /\ results[2].new_filename = None /\ ~results[2].result
    /\ results[3].result /\ results[3].new_path # results[3].image
    /\ Exists(fs, results[3].new_path)

-----------------------------------------------------------------------------
(* The metadata tool: ImageProcessor.process_single_image, which looks a   *)
(* file up in the database, asks the description model, saves the answer   *)
(* and writes it into the file.  The database, the description model and   *)
(* pyexiv2 are the environment: each of their calls succeeds or fails.     *)

\* the bound of metadata.retry_attempts
MaxWriteAttempts == 2

\* a description saved by an earlier run, and the one the model gives now
OldDescription == "old"

NewDescription == "new"

\* the file of the model that is larger than images.max_file_size_mb
LargeFile == Path("dir", <<"e">>, ".jpg")

\* st_size of a file, from its content
SizeOf(content) ==
    IF content = LargeFile THEN DefaultMaxFileSize + 1 ELSE 1

\* processor.py lines 119-129: the suffixes of the model are in lower case,
\* and a name that starts with its only dot has no suffix
MetaIsSupported(p) == p.stem # <<>> /\ p.suffix \in SupportedExtensions

\* processor.py lines 131-158: the first check that fails, every path that
\* exists being a file
validate_image_file(f, p) ==
    IF ~Exists(f, p) THEN "ImageProcessingError: not found"
    ELSE IF ~MetaIsSupported(p) THEN "UnsupportedImageFormat"
    ELSE IF SizeOf(f[p]) > DefaultMaxFileSize
      THEN "ImageProcessingError: too large"
    ELSE "valid"

\* db/manager.py lines 126-150: the description of the row, or None
NoDescription == ""

get_description(table, p) ==
    IF p \in DOMAIN table THEN table[p] ELSE NoDescription

\* processor.py line 213 tests the truth of the answer; HasDescriptionNever
\* stands for a code that never finds one
HasDescriptionNever(existing) == FALSE

\* processor.py line 213: "if existing_description:"
HasDescription(existing) == existing # NoDescription

\* db/manager.py lines 108-115: INSERT OR REPLACE of the row of the path
MapWith(m, k, v) == [x \in DOMAIN m \cup {k} |-> IF x = k THEN v ELSE m[x]]

MapWithout(m, k) == [x \in DOMAIN m \ {k} |-> m[x]]

\* process_single_image returns: its caller has the result next
MetaReturns(result, called) ==
    /\ m_pc' = "returned"
    /\ m_result' = result
    /\ m_log' = Append(m_log, called)

\* processor.py lines 208-210: the call, and the validation of the file
MetaCall(p) ==
    /\ m_pc = "idle"
    /\ m_path' = p
    /\ m_description' = NoDescription
    /\ w_attempt' = 0
    /\ IF validate_image_file(fs, p) = "valid"
         THEN /\ m_pc' = "lookup"
              /\ m_log' = <<"validate">>
              /\ UNCHANGED m_result
         ELSE /\ m_pc' = "returned"
              /\ m_result' = FALSE
              /\ m_log' = <<validate_image_file(fs, p)>>
    /\ UNCHANGED <<fs, db, xmp, m_retry_attempts, m_results>>

\* processor.py lines 212-216 and 230-232: the database is asked, and a
\* description that is there ends the call with success
Lookup ==
    /\ m_pc = "lookup"
    /\ \/ IF HasDescription(get_description(db, m_path))
            THEN MetaReturns(TRUE, "get_description: found")
            ELSE /\ m_pc' = "describe"
                 /\ m_log' = Append(m_log, "get_description: none")
                 /\ UNCHANGED m_result
       \/ MetaReturns(FALSE, "get_description: raised")
    /\ UNCHANGED <<fs, db, xmp, m_retry_attempts, m_path, m_description,
                   w_attempt, m_results>>

\* processor.py lines 218-219 and 230-232: the description model answers
\* with a description, which its client never leaves empty, or fails
Describe ==
    /\ m_pc = "describe"
    /\ \/ /\ m_description' = NewDescription
          /\ m_pc' = "save"
          /\ m_log' = Append(m_log, "generate_description")
          /\ UNCHANGED m_result
       \/ /\ MetaReturns(FALSE, "generate_description: raised")
          /\ UNCHANGED m_description
    /\ UNCHANGED <<fs, db, xmp, m_retry_attempts, m_path, w_attempt, m_results>>

\* processor.py lines 221-222 and 230-232: the row is saved, or the
\* database fails
Save ==
    /\ m_pc = "save"
    /\ \/ /\ db' = MapWith(db, m_path, m_description)
          /\ m_pc' = "write"
          /\ m_log' = Append(m_log, "save_description")
          /\ UNCHANGED m_result
       \/ /\ MetaReturns(FALSE, "save_description: raised")
          /\ UNCHANGED db
    /\ UNCHANGED <<fs, xmp, m_retry_attempts, m_path, m_description,
                   w_attempt, m_results>>

\* LastWriteAttemptOneEarly stands for a loop that gives up one attempt early
LastWriteAttemptOneEarly == w_attempt = m_retry_attempts - 2

\* processor.py line 186: "if attempt == self.retry_attempts - 1"
LastWriteAttempt == w_attempt = m_retry_attempts - 1

\* processor.py lines 171-196: one turn of the loop of
\* write_metadata_to_image: the metadata is written, or the write fails and
\* is tried again unless this was the last attempt
WriteAttempt ==
    /\ m_pc = "write"
    /\ w_attempt < m_retry_attempts
    /\ \/ /\ xmp' = MapWith(xmp, m_path, m_description)
          /\ MetaReturns(TRUE, "modify_xmp")
          /\ UNCHANGED w_attempt
       \/ /\ UNCHANGED xmp
          /\ IF LastWriteAttempt
               THEN /\ MetaReturns(FALSE, "modify_xmp: MetadataWriteError")
                    /\ UNCHANGED w_attempt
               ELSE /\ w_attempt' = w_attempt + 1
                    /\ m_log' = Append(m_log, "modify_xmp: failed")
                    /\ UNCHANGED <<m_pc, m_result>>
    /\ UNCHANGED <<fs, db, m_retry_attempts, m_path, m_description, m_results>>

\* processor.py lines 171 and 227-228: range(retry_attempts) is empty, the
\* loop has no turn and write_metadata_to_image returns
WriteNothing ==
    /\ m_pc = "write"
    /\ w_attempt >= m_retry_attempts
    /\ MetaReturns(TRUE, "no write")
    /\ UNCHANGED <<fs, db, xmp, m_retry_attempts, m_path, m_description,
                   w_attempt, m_results>>

\* the steps inside process_single_image, lines 198-232
process_single_image_steps ==
    \/ Lookup
    \/ Describe
    \/ Save
    \/ WriteAttempt
    \/ WriteNothing

\* the caller has the result of process_single_image
MetaReturned ==
    /\ m_pc = "returned"
    /\ m_pc' = "idle"
    /\ m_results' = Append(m_results,
                           [path |-> m_path, result |-> m_result,
                            calls |-> m_log, table |-> db, written |-> xmp])
    /\ UNCHANGED <<fs, db, xmp, m_retry_attempts, m_path, m_description,
                   w_attempt, m_log, m_result>>

-----------------------------------------------------------------------------
(* ImageProcessor.process_directory: the optional pass that normalizes the *)
(* names of the files, the listing of the images, and one                  *)
(* process_single_image call per listed image.                             *)

\* the names the directory may hold, in the order in which rglob lists them
MetaDirList ==
    << Path("dir", <<"a", " ", "b">>, ".jpg"),
       Path("dir", <<"a", "-", "b">>, ".jpg"),
       LargeFile,
       Path("dir", <<"n">>, ".txt") >>

MetaDirSet == { MetaDirList[i] : i \in DOMAIN MetaDirList }

\* processor.py lines 59-78, for a name with a suffix: what is not a letter
\* or a digit becomes a dash, runs of dashes become one, and the dashes at
\* both ends go
MetaSanitizeStem(stem) ==
    Strip(CollapseRuns([i \in DOMAIN stem |->
                           IF IsAlnum(stem[i]) THEN stem[i] ELSE "-"], "-"),
          {"-"})

meta_sanitize_filename(p) == Path(p.parent, MetaSanitizeStem(p.stem), p.suffix)

\* processor.py lines 97-98: the files of the directory
AllFiles(f) == SelectSeq(MetaDirList, LAMBDA q : Exists(f, q))

\* processor.py lines 246-248: the files of the directory that are images
find_image_files(f) ==
    SelectSeq(MetaDirList, LAMBDA q : Exists(f, q) /\ MetaIsSupported(q))

\* Path.rename: the file has its new name, and replaces a file of that name
Renamed(f, p, q) ==
    [x \in (DOMAIN f \ {p}) \cup {q} |-> IF x = q THEN f[p] ELSE f[x]]

\* the metadata written into a file goes where the file goes
RenamedMetadata(m, p, q) ==
    IF p \in DOMAIN m
      THEN MapWith(MapWithout(m, p), q, m[p])
      ELSE MapWithout(m, q)

\* processor.py lines 269-283 and 93-95: the call; the directory is there
ProcessStart ==
    /\ pd_pc = "start"
    /\ renamed_count' = 0
    /\ norm_index' = 0
    /\ IF sanitize_names
         THEN /\ pd_pc' = "normalize"
              /\ norm_files' = AllFiles(fs)
         ELSE /\ pd_pc' = "enumerate"
              /\ UNCHANGED norm_files
    /\ UNCHANGED <<fs, singleVars, sanitize_names, pd_files, pd_index,
                   pd_processed, pd_failed, pd_stats, otherThanMeta>>

\* processor.py lines 97-114: one turn of the loop of
\* sanitize_filenames_in_directory: a file whose name changes is renamed,
\* or the rename fails and FilePermissionError ends process_directory
NormalizeStep ==
    /\ pd_pc = "normalize"
    /\ norm_index < Len(norm_files)
    /\ LET p == norm_files[norm_index + 1]
           q == meta_sanitize_filename(p)
       IN  IF ~Exists(fs, p) \/ q = p
             THEN /\ norm_index' = norm_index + 1
                  /\ UNCHANGED <<fs, xmp, renamed_count, pd_pc>>
             ELSE \/ /\ fs' = Renamed(fs, p, q)
                     /\ xmp' = RenamedMetadata(xmp, p, q)
                     /\ renamed_count' = renamed_count + 1
                     /\ norm_index' = norm_index + 1
                     /\ UNCHANGED pd_pc
                  \/ /\ pd_pc' = "raised"
                     /\ UNCHANGED <<fs, xmp, renamed_count, norm_index>>
    /\ UNCHANGED <<db, m_retry_attempts, m_pc, m_path, m_description,
                   w_attempt, m_log, m_result, m_results, sanitize_names,
                   norm_files, pd_files, pd_index, pd_processed, pd_failed,
                   pd_stats, otherThanMeta>>

\* processor.py lines 116-117 and 280: the pass is over
NormalizeDone ==
    /\ pd_pc = "normalize"
    /\ norm_index >= Len(norm_files)
    /\ pd_pc' = "enumerate"
    /\ UNCHANGED <<fs, singleVars, sanitize_names, norm_files, norm_index,
                   renamed_count, pd_files, pd_index, pd_processed,
                   pd_failed, pd_stats, otherThanMeta>>

\* processor.py lines 283-297: the listing, and the return when it is empty
ProcessEnumerate ==
    /\ pd_pc = "enumerate"
    /\ pd_files' = find_image_files(fs)
    /\ pd_index' = 0
    /\ pd_processed' = 0
    /\ pd_failed' = 0
    /\ IF find_image_files(fs) = <<>>
         THEN /\ pd_pc' = "returned"
              /\ pd_stats' = [total_files |-> 0, processed |-> 0,
                              failed |-> 0, renamed |-> renamed_count]
         ELSE /\ pd_pc' = "loop"
              /\ UNCHANGED pd_stats
    /\ UNCHANGED <<fs, singleVars, sanitize_names, norm_files, norm_index,
                   renamed_count, otherThanMeta>>

\* processor.py lines 310-311: the call for the next file of the listing
ProcessCall ==
    /\ pd_pc = "loop"
    /\ pd_index < Len(pd_files)
    /\ MetaCall(pd_files[pd_index + 1])
    /\ UNCHANGED <<processVars, otherThanMeta>>

\* the steps of process_single_image inside that call
ProcessSteps ==
    /\ pd_pc = "loop"
    /\ process_single_image_steps
    /\ UNCHANGED <<processVars, otherThanMeta>>

\* AddOneToBoth stands for a loop that counts a failure as processed too
AddOneToBoth(ok) == [processed |-> 1, failed |-> 1]

\* processor.py lines 311-314: what a result adds to the two counters
AddOne(ok) ==
    IF ok THEN [processed |-> 1, failed |-> 0]
          ELSE [processed |-> 0, failed |-> 1]

\* processor.py lines 310-314: the call has returned and is counted
ProcessCounted ==
    /\ pd_pc = "loop"
    /\ MetaReturned
    /\ pd_index' = pd_index + 1
    /\ pd_processed' = pd_processed + AddOne(m_result).processed
    /\ pd_failed' = pd_failed + AddOne(m_result).failed
    /\ UNCHANGED <<pd_pc, sanitize_names, norm_files, norm_index,
                   renamed_count, pd_files, pd_stats, otherThanMeta>>

\* processor.py lines 325-339: the loop is over
ProcessReturn ==
    /\ pd_pc = "loop"
    /\ m_pc = "idle"
    /\ pd_index >= Len(pd_files)
    /\ pd_pc' = "returned"
    /\ pd_stats' = [total_files |-> Len(pd_files), processed |-> pd_processed,
                    failed |-> pd_failed, renamed |-> renamed_count]
    /\ UNCHANGED <<fs, singleVars, sanitize_names, norm_files, norm_index,
                   renamed_count, pd_files, pd_index, pd_processed,
                   pd_failed, otherThanMeta>>

\* processor.py lines 253-339
process_directory ==
    \/ ProcessStart
    \/ NormalizeStep
    \/ NormalizeDone
    \/ ProcessEnumerate
    \/ ProcessCall
    \/ ProcessSteps
    \/ ProcessCounted
    \/ ProcessReturn

\* the rename tool is not running
NoRenameTool ==
    /\ max_retries = 1
    /\ backup_originals = FALSE
    /\ confirm_overwrites = FALSE
    /\ pc = "idle"
    /\ src = NoPath
    /\ dst = NoPath
    /\ backup_path = NoPath
    /\ attempt = 0
    /\ outcome = "running"
    /\ log = <<>>
    /\ fs0 = <<>>
    /\ DefaultPolicy
    /\ NoSanitizeCall
    /\ NoUniqueCall
    /\ NoRenameCall
    /\ NoDirectoryCall
    /\ NoClientCall
    /\ NoVerifyCall

\* process_directory is called for a directory that holds any of the files,
\* some of which an earlier run has described
InitProcess ==
    /\ \E present \in SUBSET MetaDirSet : fs = [q \in present |-> q]
    /\ \E described \in SUBSET { q \in MetaDirSet : MetaIsSupported(q) } :
          db = [q \in described |-> OldDescription]
    /\ xmp = [q \in DOMAIN db \cap DOMAIN fs |-> db[q]]
    /\ m_retry_attempts \in 0..MaxWriteAttempts
    /\ m_pc = "idle"
    /\ m_path = NoPath
    /\ m_description = NoDescription
    /\ w_attempt = 0
    /\ m_log = <<>>
    /\ m_result = FALSE
    /\ m_results = <<>>
    /\ pd_pc = "start"
    /\ sanitize_names \in BOOLEAN
    /\ norm_files = <<>>
    /\ norm_index = 0
    /\ renamed_count = 0
    /\ pd_files = <<>>
    /\ pd_index = 0
    /\ pd_processed = 0
    /\ pd_failed = 0
    /\ pd_stats = NoMetaStats
    /\ NoRenameTool
    /\ NoWatch

SpecProcess == InitProcess /\ [][process_directory]_vars

-----------------------------------------------------------------------------
(* Claims about the metadata workflow.                                      *)

\* the call is past validation, for a path that has a row in the database
DescribedAndValid == m_pc = "lookup" /\ m_path \in DOMAIN db

\* the step leaves the database, the written metadata and the files alone,
\* and nothing but the validation and the lookup has been called
OnlyLookedUp ==
    /\ m_pc' = "returned"
    /\ db' = db
    /\ xmp' = xmp
    /\ fs' = fs
    /\ m_log = <<"validate">>
    /\ Len(m_log') = 2

\* C20 as stated: process_single_image on a valid image whose exact path
\* already has a description in the database returns success without
\* calling the description provider, without upserting and without writing
\* metadata.
C20_DescribedAlwaysSucceeds ==
    [][DescribedAndValid => (OnlyLookedUp /\ m_result')]_vars

\* C20 (amended, under SpecProcess): process_single_image on a valid image
\* whose exact path already has a description in the database calls neither
\* the description provider nor the upsert nor the metadata write, and it
\* returns success when the lookup answers; when the lookup raises, it
\* returns failure.
C20_DescribedIsSkipped ==
    [][DescribedAndValid
          => /\ OnlyLookedUp
             /\ m_result' <=> (m_log'[2] = "get_description: found")]_vars

\* a call for a described image has returned success after the lookup alone
C20_Witness ==
    /\ m_pc = "returned"
    /\ m_result
    /\ m_path \in DOMAIN db
    /\ db[m_path] = OldDescription
    /\ m_log = <<"validate", "get_description: found">>

-----------------------------------------------------------------------------
(* A directory run of either tool.                                          *)

InitBatch == InitDirectory \/ InitProcess

NextBatch == rename_directory \/ process_directory

SpecBatch == InitBatch /\ [][NextBatch]_vars

\* no file is listed twice
NoDuplicates(files) ==
    \A i, j \in DOMAIN files : files[i] = files[j] => i = j

\* the process_single_image calls that reported success
MetaSucceeded == { i \in DOMAIN m_results : m_results[i].result }

\* C19 (under SpecBatch): when rename_directory or process_directory
\* returns statistics, the files found at enumeration are each listed once,
\* each has been given to exactly one call, in the order of the listing,
\* processed and failed count the calls that reported success and failure,
\* and processed + failed = total_files.
C19_EachFileCountedOnce ==
    /\ d_pc = "returned"
          => /\ image_files = Listing(dir0)
             /\ NoDuplicates(image_files)
             /\ Len(results) = Len(image_files)
             /\ \A i \in DOMAIN results : results[i].image = image_files[i]
             /\ stats.total_files = Len(image_files)
             /\ stats.processed = Cardinality(Succeeded)
             /\ stats.failed = Len(results) - Cardinality(Succeeded)
             /\ stats.processed + stats.failed = stats.total_files
    /\ pd_pc = "returned"
          => /\ NoDuplicates(pd_files)
             /\ Len(m_results) = Len(pd_files)
             /\ \A i \in DOMAIN m_results : m_results[i].path = pd_files[i]
             /\ pd_stats.total_files = Len(pd_files)
             /\ pd_stats.processed = Cardinality(MetaSucceeded)
             /\ pd_stats.failed = Len(m_results) - Cardinality(MetaSucceeded)
             /\ pd_stats.processed + pd_stats.failed = pd_stats.total_files

\* process_directory has returned statistics for three images, one of
\* which was skipped as described, one of which failed in validation, and
\* one of which failed after its description was saved
C19_Witness ==
    /\ pd_pc = "returned"
    /\ pd_stats.total_files = 3
    /\ pd_stats.processed = 1
    /\ pd_stats.failed = 2
    /\ \E i \in DOMAIN m_results :
          m_results[i].calls = <<"validate", "get_description: found">>
    /\ \E i \in DOMAIN m_results :
          m_results[i].calls = <<"ImageProcessingError: too large">>
    /\ \E i \in DOMAIN m_results :
          /\ ~m_results[i].result
          /\ m_results[i].path \in DOMAIN db
          /\ db[m_results[i].path] = NewDescription

-----------------------------------------------------------------------------
(* Claims about write_metadata_to_image.                                    *)

\* the attempts to write the metadata among the calls of a call
WriteSucceeded == {"modify_xmp"}

WriteFailed == {"modify_xmp: failed", "modify_xmp: MetadataWriteError"}

IsWriteAttempt(called) == called \in WriteSucceeded \cup WriteFailed

IsFailedWrite(called) == called \in WriteFailed

\* what C21 says of the calls a process_single_image call has made so far
BoundedWrites(calls, returned, result) ==
    /\ Len(SelectSeq(calls, IsWriteAttempt)) <= m_retry_attempts
    /\ \A i \in DOMAIN calls :
          calls[i] \in WriteSucceeded => i = Len(calls) /\ returned /\ result
    /\ \A i \in DOMAIN calls :
          calls[i] = "modify_xmp: MetadataWriteError"
             => /\ i = Len(calls)
                /\ Len(SelectSeq(calls, IsFailedWrite)) = m_retry_attempts
                /\ Len(SelectSeq(calls, IsWriteAttempt)) = m_retry_attempts
                /\ returned
                /\ ~result

\* C21 (under SpecProcess): write_metadata_to_image makes at most
\* retry_attempts attempts, the first successful one is the last, and
\* MetadataWriteError comes only after exactly retry_attempts failed
\* attempts in a row; process_single_image then returns False, and
\* process_directory goes on and does not raise.
C21_WritesBounded ==
    /\ m_pc # "idle" => BoundedWrites(m_log, m_pc = "returned", m_result)
    /\ \A i \in DOMAIN m_results :
          BoundedWrites(m_results[i].calls, TRUE, m_results[i].result)
    /\ pd_pc = "raised" => m_results = <<>>

\* with two attempts allowed, both have failed, the file has failed, and
\* process_directory has gone on to return its statistics
C21_Witness ==
    /\ m_retry_attempts = 2
    /\ pd_pc = "returned"
    /\ \E i \in DOMAIN m_results :
          /\ ~m_results[i].result
          /\ m_results[i].calls[Len(m_results[i].calls)]
                = "modify_xmp: MetadataWriteError"
          /\ i < Len(m_results)

-----------------------------------------------------------------------------
(* Claims about process_directory.                                          *)

\* C22 (under SpecProcess): with the normalization of the names enabled,
\* process_directory never ends by raising because of one file, be it in
\* the normalization pass or in process_single_image; when it returns, every
\* listed file has been handled.
C22_OneFileNeverAborts ==
    sanitize_names
        => /\ pd_pc # "raised"
           /\ pd_pc = "returned" => Len(m_results) = Len(pd_files)

-----------------------------------------------------------------------------
(* More claims about safe_file_move, checked under SpecMove.                *)

\* the call is over, src was there, and the removals of src, all of which
\* failed, are the only calls that failed
OnlyRemovalsFailed ==
    /\ pc = "done"
    /\ Exists(fs0, src)
    /\ "unlink src failed" \in Range(log)
    /\ "unlink src ok" \notin Range(log)
    /\ \A i \in DOMAIN log : IsFailure(log[i]) => log[i] = "unlink src failed"

\* C23: when removing src fails on every attempt while each copy succeeds,
\* every failed removal is followed by the removal of the copy at dst, the
\* call makes exactly max_retries copies and ends by raising, with src in
\* place and dst absent.
C23_RemovalFailures ==
    OnlyRemovalsFailed
        => /\ \A i \in DOMAIN log :
                 log[i] = "unlink src failed"
                    => i < Len(log) /\ log[i + 1] = "unlink dst ok"
           /\ Copies = max_retries
           /\ Raised
           /\ outcome = "FilePermissionError"
           /\ HoldsOriginal(src)
           /\ ~Exists(fs, dst)

\* three attempts, each of which copied and could not remove src
C23_Witness ==
    /\ OnlyRemovalsFailed
    /\ max_retries = 3
    /\ Len(SelectSeq(log, IsUnlinkFailure)) = 3
    /\ ~Exists(fs0, dst)

-----------------------------------------------------------------------------
(* More claims about get_unique_filename, checked under SpecUnique.         *)

\* lines 246-250: the path that is tried first
FirstTried ==
    IF suffix_arg # <<>>
      THEN Path(base_path.parent, base_path.stem \o suffix_arg, base_path.suffix)
      ELSE base_path

\* C24: when the candidate path exists, get_unique_filename returns the
\* path numbered k, for the smallest k >= 1 whose path does not exist: the
\* paths numbered 1 .. k-1 all exist and the one numbered k does not.
C24_SmallestFreeCounter ==
    \A i \in DOMAIN resolved :
        FirstTried \in resolved[i].existing
            => \E k \in 1..(MaxNumbered + MaxResolves) :
                  /\ resolved[i].result = Numbered(base_path, suffix_arg, k)
                  /\ resolved[i].result \notin resolved[i].existing
                  /\ \A j \in 1..(k - 1) :
                        Numbered(base_path, suffix_arg, j) \in resolved[i].existing

\* the candidate and the paths numbered 1 to 4 exist, and the path numbered
\* 5 was returned
C24_Witness ==
    /\ suffix_arg = <<>>
    /\ resolved # <<>>
    /\ base_path \in resolved[1].existing
    /\ \A j \in 1..4 : Numbered(base_path, <<>>, j) \in resolved[1].existing
    /\ resolved[1].result = Numbered(base_path, <<>>, 5)

-----------------------------------------------------------------------------
(* More claims about sanitize_filename, checked under SpecSanitize.         *)

\* the stem of the call, before its length is limited
Cleaned ==
    CleanedStem(description, pattern_cleanup, remove_punctuation,
                replace_spaces_with, case_conversion)

\* the lengths of the prefixes of s that are made of whole words
WordBoundaries(s, sep) ==
    { i \in 0..Len(s) : i = Len(s) \/ s[i + 1] = sep }

Smallest(S) == CHOOSE i \in S : \A j \in S : i <= j

Largest(S) == CHOOSE i \in S : \A j \in S : i >= j

\* the longest prefix of whole words that is at most limit long, and the
\* first limit characters when the first word alone is longer
LongestWordPrefix(s, sep, limit) ==
    IF Smallest(WordBoundaries(s, sep)) > limit
      THEN SubSeq(s, 1, limit)
      ELSE SubSeq(s, 1, Largest({ i \in WordBoundaries(s, sep) : i <= limit }))

\* C25: when the stem is longer than max_length, sanitize_filename returns
\* its longest prefix of whole separator-delimited words that is at most
\* max_length long, and its first max_length characters when the first word
\* alone is longer (the placeholder standing for an empty result).
C25_LongestWordPrefix ==
    (sanitized # NotCalled /\ Len(Cleaned) > max_length)
        => StemOf(sanitized)
              = OrUnnamed(LongestWordPrefix(Cleaned, replace_spaces_with,
                                            max_length))

-----------------------------------------------------------------------------
(* Claims about the backup of safe_file_move, checked under SpecMove.       *)

\* the only calls that failed are copies to dst and removals of src
OnlyCopiesAndRemovalsFailed ==
    \A i \in DOMAIN log :
        IsFailure(log[i]) => log[i] \in {"copy failed", "unlink src failed"}

\* C26: with backup_originals enabled, when the call is over the backup is
\* gone: removed after a successful move, and, when the attempts were used
\* up by failed copies or failed removals of src, removed after src was
\* restored from it, before the error is raised.
C26_BackupDoesNotOutlive ==
    (/\ pc = "done"
     /\ backup_originals
     /\ max_retries >= 1
     /\ Exists(fs0, src)
     /\ OnlyCopiesAndRemovalsFailed)
        => /\ ~Exists(fs, BackupPathOf(src))
           /\ Raised => HoldsOriginal(src)

\* C27: a call that raises leaves a file that was at dst before the call
\* in place, with the content it had, whatever confirm_overwrites is.
C27_FailedMoveKeepsDst ==
    (pc = "done" /\ Raised /\ Exists(fs0, dst))
        => /\ Exists(fs, dst)
           /\ fs[dst] = fs0[dst]

-----------------------------------------------------------------------------
(* More claims about the metadata workflow, checked under SpecProcess.      *)

\* C28: between process_single_image calls, whatever metadata writes have
\* failed, a file whose path has a description in the database has that
\* description written in its metadata (so that a file whose write failed
\* is not skipped as described by the next run).  Stated for runs that
\* rename no file and make at least one write attempt.
C28_SavedOnlyIfWritten ==
    (m_pc \in {"idle", "returned"} /\ ~sanitize_names /\ m_retry_attempts >= 1)
        => \A p \in DOMAIN db \cap DOMAIN fs :
              /\ p \in DOMAIN xmp
              /\ xmp[p] = db[p]

\* C29: the normalization pass never reduces the number of files: at every
\* step of it and after it, the directory holds as many files as were
\* listed when the pass began.
C29_NormalizationKeepsEveryFile ==
    (sanitize_names /\ pd_pc # "start")
        => Cardinality(DOMAIN fs) = Len(norm_files)

-----------------------------------------------------------------------------
(* The watch script (image_processor_name/main.py): the observer queues a  *)
(* creation event for every file created in the watched directory, be it   *)
(* by another program or by the script's own shutil.copy2, and hands the    *)
(* events to ImageHandler.on_created one after the other.                   *)

\* the bound of the images other programs create
MaxExternal == 2

\* the bound of the filesystem calls the environment lets fail
MaxWatchFaults == 1

\* the environment may let the next filesystem call fail
WatchMayFail == watch_faults < MaxWatchFaults

\* main.py line 88: the default of max_retries
WatchMaxRetries == 3

\* what the description model may answer
WatchDescriptions == { <<"A", " ", "b", "!">>, <<"d">> }

\* main.py lines 166-172: the name made of a description
WatchStem(text) ==
    LET lowered == RStrip(StrLower(Strip(text, Whitespace)),
                          TrailingPunctuation)
        dashed == [i \in DOMAIN lowered |->
                      IF IsAlnum(lowered[i]) THEN lowered[i] ELSE "-"]
    IN  Strip(CollapseRuns(dashed, "-"), {"-"})

\* the files other programs create in the watched directory
ExternalPaths == { Path("dir", <<"e">>, ".jpg"), Path("dir", <<"n">>, ".txt") }

\* main.py line 40: the suffixes of the model are in lower case
WatchedImage(p) == p.suffix \in {".png", ".jpg", ".jpeg"}

\* the observer: a file that was not there has been created
Created(f, p) == IF Exists(f, p) THEN events ELSE Append(events, p)

\* another program creates a file in the watched directory
ExternalCreate ==
    /\ external_left > 0
    /\ \E p \in ExternalPaths :
          /\ ~Exists(fs, p)
          /\ fs' = [q \in DOMAIN fs \cup {p} |-> IF q = p THEN p ELSE fs[q]]
          /\ events' = Append(events, p)
    /\ external_left' = external_left - 1
    /\ UNCHANGED <<w_pc, w_src, w_dst, watch_attempt, watch_faults,
                   otherThanWatch>>

\* main.py lines 32-43, 183-192 and 132-180: the next event is handled;
\* for an image that is there, the description model answers with a
\* description, of which the new name is made, or rename_file gives None
OnCreated ==
    /\ w_pc = "idle"
    /\ events # <<>>
    /\ events' = Tail(events)
    /\ LET p == Head(events)
       IN  IF WatchedImage(p) /\ Exists(fs, p)
             THEN \/ \E text \in WatchDescriptions :
                        /\ w_src' = p
                        /\ w_dst' = Path(p.parent, WatchStem(text), p.suffix)
                        /\ watch_attempt' = 0
                        /\ w_pc' = "copy"
                  \/ UNCHANGED <<w_pc, w_src, w_dst, watch_attempt>>
             ELSE UNCHANGED <<w_pc, w_src, w_dst, watch_attempt>>
    /\ UNCHANGED <<fs, external_left, watch_faults, otherThanWatch>>

\* main.py lines 105 and 122-129: after a failed attempt, the next one, or
\* False when it was the last
NextWatchAttempt ==
    IF watch_attempt < WatchMaxRetries - 1
      THEN /\ watch_attempt' = watch_attempt + 1
           /\ w_pc' = "copy"
      ELSE /\ w_pc' = "idle"
           /\ UNCHANGED watch_attempt

\* main.py lines 105-111: shutil.copy2(src, dst), which fails when src and
\* dst are the same file or src is gone, and may fail otherwise
WatchCopy ==
    /\ w_pc = "copy"
    /\ IF Exists(fs, w_src) /\ w_src # w_dst
         THEN \/ /\ fs' = Copy2(fs, w_src, w_dst)
                 /\ events' = Created(fs, w_dst)
                 /\ w_pc' = "unlink_src"
                 /\ UNCHANGED <<watch_attempt, watch_faults>>
              \/ /\ WatchMayFail
                 /\ watch_faults' = watch_faults + 1
                 /\ NextWatchAttempt
                 /\ UNCHANGED <<fs, events>>
         ELSE /\ NextWatchAttempt
              /\ UNCHANGED <<fs, events, watch_faults>>
    /\ UNCHANGED <<external_left, w_src, w_dst, otherThanWatch>>

\* main.py lines 113-117: src.unlink()
WatchUnlinkSrc ==
    /\ w_pc = "unlink_src"
    /\ \/ /\ fs' = Unlink(fs, w_src)
          /\ w_pc' = "idle"
          /\ UNCHANGED watch_faults
       \/ /\ WatchMayFail
          /\ watch_faults' = watch_faults + 1
          /\ w_pc' = "unlink_dst"
          /\ UNCHANGED fs
    /\ UNCHANGED <<events, external_left, w_src, w_dst, watch_attempt,
                   otherThanWatch>>

\* main.py lines 117-120 and 122-127: dst.unlink(), after which, and after
\* whose failure, the loop goes on
WatchUnlinkDst ==
    /\ w_pc = "unlink_dst"
    /\ \/ /\ fs' = Unlink(fs, w_dst)
          /\ UNCHANGED watch_faults
       \/ /\ WatchMayFail
          /\ watch_faults' = watch_faults + 1
          /\ UNCHANGED fs
    /\ NextWatchAttempt
    /\ UNCHANGED <<events, external_left, w_src, w_dst, otherThanWatch>>

\* main.py lines 29-43: the event handler
on_created ==
    \/ OnCreated
    \/ WatchCopy
    \/ WatchUnlinkSrc
    \/ WatchUnlinkDst

NextWatch == ExternalCreate \/ on_created

\* the observer has been started on a directory that holds no image
InitWatch ==
    /\ fs = <<>>
    /\ events = <<>>
    /\ external_left \in 1..MaxExternal
    /\ w_pc = "idle"
    /\ w_src = NoPath
    /\ w_dst = NoPath
    /\ watch_attempt = 0
    /\ watch_faults = 0
    /\ NoRenameTool
    /\ NoMetaCall

\* the observer's thread hands every queued event to the handler, and the
\* handler goes on
SpecWatch == InitWatch /\ [][NextWatch]_vars /\ WF_vars(on_created)

\* C30 (under SpecWatch): after the last image created by another program,
\* the event handler makes finitely many moves and then stays idle with no
\* event left, whatever descriptions the model gives.
C30_HandlerComesToRest == <>[](w_pc = "idle" /\ events = <<>>)

====
